---- MODULE Spec2Model ----
(***************************************************************************)
(* The LLM council: Stage1 (collect) -> Stage2 (anonymized peer ranking)   *)
(* -> Stage3 (chairman synthesis), with the label anonymizer, the ranking  *)
(* parser, the rank aggregation and the persistent score store.            *)
(*                                                                         *)
(* Text is modelled as a sequence of tokens (strings).  A model name such  *)
(* as "Chat GPT [Thinking]" is <<"Chat"," ","GPT"," ","[","Thinking","]">>;*)
(* a reviewer reply is a sequence of words, number tokens ("1."), label    *)
(* tokens ("Response A1") and the marker token "FINAL RANKING:".           *)
(* A Python dict is a sequence of <<key, value>> pairs in insertion order. *)
(***************************************************************************)
EXTENDS Integers, Sequences, FiniteSets, TLC

VARIABLES
    config,          \* COUNCIL_MODELS of this deployment (raw names)
    scores_file,     \* the score file on disk: [state, table]
    turn,            \* number of turns started so far
    entry,           \* "full" while a call of run_full_council is under way, else "none"
    pc,              \* position of the turn's coroutine
    q1,              \* Stage1 queries: per configured agent "idle"/"inflight"/"ok"/"fail"
    order1,          \* configured indices in the order their Stage1 query settled
    q2,              \* Stage2 queries: per configured agent [st, reply]
    qc,              \* chairman query: "idle"/"inflight"/"ok"/"fail"
    stage1_results,  \* list of [model, response]
    stage2_results,  \* list of [model, ranking, parsed_ranking]
    label_to_model,  \* dict label -> model of the turn
    aggregate_rankings, \* leaderboard of the turn
    chairman_prompt, \* the Stage3 prompt of the turn
    ranking_prompt,  \* the Stage2 prompt of the turn
    stage3_result,   \* [model, response] returned by the turn
    raised,          \* TRUE when an exception left the pipeline
    nUpdates,        \* history: calls of update_scores in this turn
    nReads,          \* history: score file reads in this turn
    nWrites,         \* history: score file write attempts in this turn
    updErr,          \* history: [rd, wr] store errors injected in this turn's Update
    scores_before,   \* history: the score file this turn's Update found
    web,             \* request/response of the last web-chatbot helper call
    conversations,   \* the conversation files: id -> [status, title, messages]
    handlers,        \* the message requests being served, each at its await point
    http_response,   \* the response to the last conversation request answered
    renamed          \* history: id -> the title of the last successful rename, "" if none

vars == <<config, scores_file, turn, entry, pc, q1, order1, q2, qc,
          stage1_results, stage2_results, label_to_model, aggregate_rankings,
          chairman_prompt, ranking_prompt, stage3_result, raised,
          nUpdates, nReads, nWrites, updErr, scores_before, web,
          conversations, handlers, http_response, renamed>>

ConvVars == <<conversations, handlers, http_response, renamed>>

----------------------------------------------------------------------------
(* Bounds *)

MaxTurns == 1        \* turns explored per behaviour
MaxWebResp == 3      \* longest stage1_results list sent to a web-chatbot helper
MaxReplyLen == 5     \* longest reviewer reply (tokens) handed to the parser on its own
MaxListLen == 4      \* longest label list handed to the point award on its own
MaxReviews == 3      \* most reviews handed to the aggregation on its own
MaxUpdates == 2      \* Updates of the score store explored one after another
MaxSuffixes == 1     \* thinking-suffix spellings appended to one raw agent name
MaxConvs == 1        \* conversations created
MaxMessages == 2     \* messages a conversation holds when a further message request is accepted
MaxInFlight == 2     \* message requests served at the same time

----------------------------------------------------------------------------
(* Generic helpers: sequences, dicts, rationals *)

RECURSIVE SumSeq(_)
SumSeq(s) == IF s = <<>> THEN 0 ELSE Head(s) + SumSeq(Tail(s))

Range(s) == { s[i] : i \in 1..Len(s) }

\* dict as a sequence of <<key, value>> pairs, keys unique, insertion order kept
DictKeys(d) == { d[i][1] : i \in 1..Len(d) }
DictHas(d, k) == \E i \in 1..Len(d) : d[i][1] = k
DictGet(d, k) == d[CHOOSE i \in 1..Len(d) : d[i][1] = k][2]
DictSet(d, k, v) ==
    IF DictHas(d, k)
    THEN [ i \in 1..Len(d) |-> IF d[i][1] = k THEN <<k, v>> ELSE d[i] ]
    ELSE Append(d, <<k, v>>)

RECURSIVE DictFromPairs(_)
DictFromPairs(ps) ==
    IF ps = <<>> THEN <<>>
    ELSE LET n == Len(ps) IN DictSet(DictFromPairs(SubSeq(ps, 1, n - 1)), ps[n][1], ps[n][2])

\* rationals as <<numerator, denominator>>, denominator > 0, in lowest terms
RECURSIVE Gcd(_, _)
Gcd(a, b) == IF b = 0 THEN a ELSE Gcd(b, a % b)
Abs(x) == IF x < 0 THEN -x ELSE x
Rat(n, d) == LET g == Gcd(Abs(n), d) IN IF n = 0 THEN <<0, 1>> ELSE <<n \div g, d \div g>>
RatLess(a, b) == a[1] * b[2] < b[1] * a[2]
RatAdd(a, b) == Rat(a[1] * b[2] + b[1] * a[2], a[2] * b[2])
RatMul(a, b) == Rat(a[1] * b[1], a[2] * b[2])

\* IEEE-754 doubles: <<m, e>> stands for m * 2^e, the natural m < 2^53 written
\* in base 2^13, least significant digit first, without leading zeros
RECURSIVE NatDigits(_)
NatDigits(n) == IF n = 0 THEN <<>> ELSE <<n % (2 ^ 13)>> \o NatDigits(n \div (2 ^ 13))

RECURSIVE DigitsNat(_)
DigitsNat(b) == IF b = <<>> THEN 0 ELSE b[1] + (2 ^ 13) * DigitsNat(Tail(b))

RECURSIVE StripZeros(_)
StripZeros(b) == IF b # <<>> /\ b[Len(b)] = 0 THEN StripZeros(SubSeq(b, 1, Len(b) - 1)) ELSE b

DigitAt(b, i) == IF i >= 1 /\ i <= Len(b) THEN b[i] ELSE 0
Zeros(k) == [ j \in 1..k |-> 0 ]

\* the digits of the number whose digit i is cols[i], any natural below 2^30
RECURSIVE Carry(_, _, _)
Carry(cols, i, c) ==
    IF i > Len(cols) THEN NatDigits(c)
    ELSE LET t == cols[i] + c
         IN <<t % (2 ^ 13)>> \o Carry(cols, i + 1, t \div (2 ^ 13))

BigAdd(x, y) ==
    LET n == IF Len(x) > Len(y) THEN Len(x) ELSE Len(y)
    IN StripZeros(Carry([ i \in 1..n |-> DigitAt(x, i) + DigitAt(y, i) ], 1, 0))

\* x - y for x >= y
RECURSIVE SubFrom(_, _, _, _)
SubFrom(x, y, i, c) ==
    IF i > Len(x) THEN <<>>
    ELSE LET t == x[i] - DigitAt(y, i) - c
         IN <<(t + (2 ^ 13)) % (2 ^ 13)>> \o SubFrom(x, y, i + 1, IF t < 0 THEN 1 ELSE 0)
BigSub(x, y) == StripZeros(SubFrom(x, y, 1, 0))

BigMul(x, y) ==
    LET col(k) == SumSeq([ i \in 1..Len(x) |-> x[i] * DigitAt(y, k + 1 - i) ])
    IN StripZeros(Carry([ k \in 1..(Len(x) + Len(y)) |-> col(k) ], 1, 0))

\* x * 2^k and the whole part of x / 2^k
ShiftLeft(x, k) == Zeros(k \div 13) \o BigMul(x, <<2 ^ (k % 13)>>)
ShiftRight(x, k) ==
    LET y == SubSeq(x, (k \div 13) + 1, Len(x))
        b == k % 13
    IN StripZeros([ i \in 1..Len(y) |->
                      (y[i] \div (2 ^ b)) + (DigitAt(y, i + 1) % (2 ^ b)) * (2 ^ (13 - b)) ])

\* the number of bits of x, bit k of x (bit 1 the lowest), and whether one of
\* the bits 1..k of x is set
BitLen(x) ==
    IF x = <<>> THEN 0
    ELSE 13 * (Len(x) - 1) + CHOOSE n \in 1..13 : 2 ^ (n - 1) <= x[Len(x)] /\ x[Len(x)] < 2 ^ n
BitAt(x, k) == IF k < 1 THEN 0 ELSE (DigitAt(x, ((k - 1) \div 13) + 1) \div (2 ^ ((k - 1) % 13))) % 2
LowBits(x, k) ==
    \/ \E i \in 1..(k \div 13) : DigitAt(x, i) # 0
    \/ DigitAt(x, (k \div 13) + 1) % (2 ^ (k % 13)) # 0

\* the quotient (digits) and remainder of the number with digits num, most
\* significant first, by the natural q < 2^17
RECURSIVE DivFrom(_, _, _, _, _)
DivFrom(num, q, i, rem, acc) ==
    IF i > Len(num) THEN [q |-> StripZeros(acc), r |-> rem]
    ELSE LET t == (2 ^ 13) * rem + num[i]
         IN DivFrom(num, q, i + 1, t % q, <<t \div q>> \o acc)

\* the double nearest to x * 2^e (plus a fraction of the last bit when sticky),
\* ties to even
Fl(x, sticky, e) ==
    LET k == BitLen(x) - 53
    IN IF k <= 0 THEN <<x, e>>
       ELSE LET head == ShiftRight(x, k)
                rest == sticky \/ LowBits(x, k - 1)
                up == BitAt(x, k) = 1 /\ (rest \/ head[1] % 2 = 1)
            IN <<IF up THEN BigAdd(head, <<1>>) ELSE head, e + k>>

\* float(p) / float(q) for naturals p and 0 < q < 2^17
FDiv(p, q) ==
    IF p = 0 THEN <<<<>>, 0>>
    ELSE LET np == NatDigits(p)
             num == [ i \in 1..(Len(np) + 6) |-> IF i <= Len(np) THEN np[Len(np) + 1 - i] ELSE 0 ]
             d == DivFrom(num, q, 1, 0, <<>>)
         IN Fl(d.q, d.r # 0, -78)

FMul(a, b) == Fl(BigMul(a[1], b[1]), FALSE, a[2] + b[2])

Aligned(a, e) == ShiftLeft(a[1], a[2] - e)
FAdd(a, b) ==
    LET e == IF a[2] < b[2] THEN a[2] ELSE b[2]
    IN Fl(BigAdd(Aligned(a, e), Aligned(b, e)), FALSE, e)

\* a - b for a >= b
FSub(a, b) ==
    LET e == IF a[2] < b[2] THEN a[2] ELSE b[2]
    IN Fl(BigSub(Aligned(a, e), Aligned(b, e)), FALSE, e)

\* round(f, 2) of the double f >= 0, in hundredths: the exact value of f
\* rounded to the nearest multiple of 1/100, ties to even
FRound2(f) ==
    LET n == BigMul(f[1], <<100>>)
        k == -f[2]
    IN IF k <= 0 THEN DigitsNat(ShiftLeft(n, -k))
       ELSE LET q == DigitsNat(ShiftRight(n, k))
                up == BitAt(n, k) = 1 /\ (LowBits(n, k - 1) \/ q % 2 = 1)
            IN IF up THEN q + 1 ELSE q

\* x is an odd multiple of 1/200: the decimal rounding of x is a tie
IsTie(x) == (200 * x[1]) % x[2] = 0 /\ ((200 * x[1]) \div x[2]) % 2 = 1

\* the multiple of 1/100 nearest to x >= 0, ties to even
Nearest(x) ==
    LET n == x[1] * 100
        q == n \div x[2]
        r == n % x[2]
        up == \/ 2 * r > x[2]
              \/ (2 * r = x[2] /\ q % 2 = 1)
    IN Rat(IF up THEN q + 1 ELSE q, 100)

\* round(x, 2) of the double x = p / q. A rational stands for the double
\* nearest to it. Off a tie the double lies within 2^-52 * x of p / q and at
\* least 1 / (200 * q) from the nearest tie, so it rounds as p / q does; at a
\* tie the double itself decides
Round2(x) ==
    IF IsTie(x) THEN Rat(FRound2(FDiv(x[1], x[2])), 100) ELSE Nearest(x)

----------------------------------------------------------------------------
(* utils.clean_model_name over token sequences *)

IsWS(t) == t = " "
IsChat(t) == t \in {"Chat", "chat", "CHAT"}
IsGPT(t) == t \in {"GPT", "gpt", "Gpt"}
IsThinking(t) == t \in {"Thinking", "thinking", "THINKING"}
IsExtParen(t) == t \in {"(Ext)", "(ext)"}
IsExtBracket(t) == t \in {"[Ext.", "[ext."}

\* token i of s, "" past either end
Tok(s, i) == IF i >= 1 /\ i <= Len(s) THEN s[i] ELSE ""

\* index of the first non-whitespace token at or after i (Len(s)+1 if none)
RECURSIVE SkipWS(_, _)
SkipWS(s, i) == IF i <= Len(s) /\ IsWS(s[i]) THEN SkipWS(s, i + 1) ELSE i

\* re.match of pattern p at token i: the index just past the match, 0 if no match
\*   "chatgpt"  Chat\s*GPT
\*   "ext_paren"    \s*\(Ext\)\s*Thinking
\*   "ext_bracket"  \s*\[Ext\.\s*Thinking\]
\*   "bracket"      \s*\[Thinking\]
\*   "paren"        \s*\(Thinking\)
\*   "suffix"       \s+Thinking$
MatchAt(p, s, i) ==
    LET j == SkipWS(s, i)
        k == SkipWS(s, j + 1)
    IN CASE p = "chatgpt" ->
              LET g == SkipWS(s, i + 1)
              IN IF IsChat(Tok(s, i)) /\ IsGPT(Tok(s, g)) THEN g + 1 ELSE 0
         [] p = "ext_paren" ->
              IF IsExtParen(Tok(s, j)) /\ IsThinking(Tok(s, k)) THEN k + 1 ELSE 0
         [] p = "ext_bracket" ->
              IF IsExtBracket(Tok(s, j)) /\ IsThinking(Tok(s, k)) /\ Tok(s, k + 1) = "]"
              THEN k + 2 ELSE 0
         [] p = "bracket" ->
              IF Tok(s, j) = "[" /\ IsThinking(Tok(s, j + 1)) /\ Tok(s, j + 2) = "]"
              THEN j + 3 ELSE 0
         [] p = "paren" ->
              IF Tok(s, j) = "(" /\ IsThinking(Tok(s, j + 1)) /\ Tok(s, j + 2) = ")"
              THEN j + 3 ELSE 0
         [] p = "suffix" ->
              IF IsWS(Tok(s, i)) /\ IsThinking(Tok(s, j)) /\ j = Len(s) THEN j + 1 ELSE 0
         [] OTHER -> 0

\* re.sub(p, repl, s): every leftmost non-overlapping match replaced, scanning from i
RECURSIVE ReSub(_, _, _, _)
ReSub(p, repl, s, i) ==
    IF i > Len(s) THEN <<>>
    ELSE LET e == MatchAt(p, s, i)
         IN IF e > 0 THEN repl \o ReSub(p, repl, s, e)
                     ELSE <<s[i]>> \o ReSub(p, repl, s, i + 1)

\* str.strip()
RECURSIVE Strip(_)
Strip(s) ==
    IF s = <<>> THEN s
    ELSE IF IsWS(Head(s)) THEN Strip(Tail(s))
    ELSE IF IsWS(s[Len(s)]) THEN Strip(SubSeq(s, 1, Len(s) - 1))
    ELSE s

suffixes == <<"ext_paren", "ext_bracket", "bracket", "paren", "suffix">>

RECURSIVE RemoveSuffixes(_, _)
RemoveSuffixes(s, n) ==
    IF n > Len(suffixes) THEN s
    ELSE RemoveSuffixes(ReSub(suffixes[n], <<>>, s, 1), n + 1)

\* the canonicalization that returns the raw name
clean_model_name_identity(name) == name

clean_model_name(name) ==
    IF name = <<>> THEN name
    ELSE Strip(RemoveSuffixes(ReSub("chatgpt", <<"Chat", "GPT">>, name, 1), 1))

----------------------------------------------------------------------------
(* Labels *)

Letters == <<"A", "B", "C", "D", "E", "F", "G", "H">>

\* chr(65 + i), i counted from 0
Chr65(i) == Letters[i + 1]

\* f"Response {label}"
ResponseLabel(label) == "Response " \o label

\* every token the pattern  Response [A-Z]\d*  matches within the bounds
LabelTokens ==
    { ResponseLabel(Letters[i]) : i \in 1..Len(Letters) }
    \cup { ResponseLabel(Letters[i] \o ToString(k)) : i \in 1..Len(Letters), k \in 1..4 }

----------------------------------------------------------------------------
(* council.parse_ranking_from_text *)

Marker == "FINAL RANKING:"
IsNumber(t) == t \in {"1.", "2.", "3.", "4.", "5.", "6.", "7.", "8.", "9."}
IsLabel(t) == t \in LabelTokens

\* index of the first marker token at or after i, 0 if none
RECURSIVE FindMarker(_, _)
FindMarker(s, i) ==
    IF i > Len(s) THEN 0 ELSE IF s[i] = Marker THEN i ELSE FindMarker(s, i + 1)

\* ranking_text.split("FINAL RANKING:")[1]
SplitPart1(s) ==
    LET m1 == FindMarker(s, 1)
        m2 == FindMarker(s, m1 + 1)
    IN SubSeq(s, m1 + 1, IF m2 = 0 THEN Len(s) ELSE m2 - 1)

\* re.findall(r'\d+\.\s*Response [A-Z]\d*', s), each reduced to its label
RECURSIVE NumberedMatches(_, _)
NumberedMatches(s, i) ==
    IF i >= Len(s) THEN <<>>
    ELSE IF IsNumber(s[i]) /\ IsLabel(s[i + 1])
         THEN <<s[i + 1]>> \o NumberedMatches(s, i + 2)
         ELSE NumberedMatches(s, i + 1)

\* re.findall(r'Response [A-Z]\d*', s)
LabelMatches(s) == SelectSeq(s, IsLabel)

parse_ranking_from_text(ranking_text) ==
    IF FindMarker(ranking_text, 1) > 0
    THEN LET ranking_section == SplitPart1(ranking_text)
             numbered_matches == NumberedMatches(ranking_section, 1)
         IN IF numbered_matches # <<>> THEN numbered_matches
            ELSE LabelMatches(ranking_section)
    ELSE LabelMatches(ranking_text)

----------------------------------------------------------------------------
(* scores.py *)

EMA_ALPHA == <<1, 5>>

\* a points table that pays more the lower the place
RANKING_POINTS_rising(i) ==
    CASE i = 0 -> 1 [] i = 1 -> 2 [] i = 2 -> 3 [] i = 3 -> 6 [] i = 4 -> 12 [] i = 5 -> 25
      [] OTHER -> 0

\* RANKING_POINTS.get(i, 0), i 0-indexed
RANKING_POINTS(i) ==
    CASE i = 0 -> 25 [] i = 1 -> 12 [] i = 2 -> 6 [] i = 3 -> 3 [] i = 4 -> 2 [] i = 5 -> 1
      [] OTHER -> 0

\* sorted(items, key=lambda x: x[2]) for items <<value, rational key>>: stable
RECURSIVE InsertByKey(_, _)
InsertByKey(x, sorted) ==
    IF sorted = <<>> THEN <<x>>
    ELSE IF RatLess(x[2], Head(sorted)[2]) THEN <<x>> \o sorted
    ELSE <<Head(sorted)>> \o InsertByKey(x, Tail(sorted))

RECURSIVE SortByKey(_)
SortByKey(items) ==
    IF items = <<>> THEN <<>>
    ELSE InsertByKey(items[Len(items)], SortByKey(SubSeq(items, 1, Len(items) - 1)))

\* model -> list of the 1-indexed positions of its labels in ranked_labels[1..n]
RECURSIVE ModelRanks(_, _, _)
ModelRanks(ranked_labels, label_to_model_, n) ==
    IF n = 0 THEN <<>>
    ELSE LET acc == ModelRanks(ranked_labels, label_to_model_, n - 1)
             label == ranked_labels[n]
         IN IF DictHas(label_to_model_, label) /\ DictGet(label_to_model_, label) # <<>>
            THEN LET model_name == DictGet(label_to_model_, label)
                     old == IF DictHas(acc, model_name) THEN DictGet(acc, model_name) ELSE <<>>
                 IN DictSet(acc, model_name, Append(old, n))
            ELSE acc

\* _calculate_points_for_review that ranks an agent by the first of its
\* positions instead of their average
calculate_points_for_review_by_first(ranked_labels, reviewer_model, label_to_model_) ==
    LET model_ranks == ModelRanks(ranked_labels, label_to_model_, Len(ranked_labels))
        model_avg_ranks == [ i \in 1..Len(model_ranks) |->
                               <<model_ranks[i][1], Rat(model_ranks[i][2][1], 1)>> ]
        sorted_models == SortByKey(model_avg_ranks)
        awarded == [ i \in 1..Len(sorted_models) |->
                       <<sorted_models[i][1], RANKING_POINTS(i - 1)>> ]
    IN SelectSeq(awarded, LAMBDA e : e[2] > 0)

\* _calculate_points_for_review that leaves the reviewer's own labels out
calculate_points_for_review_no_self(ranked_labels, reviewer_model, label_to_model_) ==
    LET others == SelectSeq(ranked_labels,
                            LAMBDA l : ~(DictHas(label_to_model_, l)
                                         /\ DictGet(label_to_model_, l) = reviewer_model))
        model_ranks == ModelRanks(others, label_to_model_, Len(others))
        model_avg_ranks == [ i \in 1..Len(model_ranks) |->
                               <<model_ranks[i][1],
                                 Rat(SumSeq(model_ranks[i][2]), Len(model_ranks[i][2]))>> ]
        sorted_models == SortByKey(model_avg_ranks)
        awarded == [ i \in 1..Len(sorted_models) |->
                       <<sorted_models[i][1], RANKING_POINTS(i - 1)>> ]
    IN SelectSeq(awarded, LAMBDA e : e[2] > 0)

\* _calculate_points_for_review without the test points > 0: a place beyond
\* the sixth is entered with 0 points
calculate_points_for_review_keeps_zero(ranked_labels, reviewer_model, label_to_model_) ==
    LET model_ranks == ModelRanks(ranked_labels, label_to_model_, Len(ranked_labels))
        model_avg_ranks == [ i \in 1..Len(model_ranks) |->
                               <<model_ranks[i][1],
                                 Rat(SumSeq(model_ranks[i][2]), Len(model_ranks[i][2]))>> ]
        sorted_models == SortByKey(model_avg_ranks)
    IN [ i \in 1..Len(sorted_models) |-> <<sorted_models[i][1], RANKING_POINTS(i - 1)>> ]

\* dict model -> points awarded by one reviewer
calculate_points_for_review(ranked_labels, reviewer_model, label_to_model_) ==
    LET model_ranks == ModelRanks(ranked_labels, label_to_model_, Len(ranked_labels))
        model_avg_ranks == [ i \in 1..Len(model_ranks) |->
                               <<model_ranks[i][1],
                                 Rat(SumSeq(model_ranks[i][2]), Len(model_ranks[i][2]))>> ]
        sorted_models == SortByKey(model_avg_ranks)
        awarded == [ i \in 1..Len(sorted_models) |->
                       <<sorted_models[i][1], RANKING_POINTS(i - 1)>> ]
    IN SelectSeq(awarded, LAMBDA e : e[2] > 0)

\* get_scores with the try/except around the load removed
get_scores_uncaught(file, rd_error) ==
    IF file.state = "missing" THEN [exc |-> FALSE, scores |-> <<>>]
    ELSE IF rd_error \/ file.state = "corrupt" THEN [exc |-> TRUE, scores |-> <<>>]
    ELSE [exc |-> FALSE, scores |-> file.table]

\* the score file: state "missing", "ok" or "corrupt" (unparseable), and its table.
\* get_scores: exc marks an exception leaving the function; the read error
\* (open or json.load raising) is caught and an empty table returned
get_scores(file, rd_error) ==
    IF file.state = "missing" THEN [exc |-> FALSE, scores |-> <<>>]
    ELSE IF rd_error \/ file.state = "corrupt" THEN [exc |-> FALSE, scores |-> <<>>]
    ELSE [exc |-> FALSE, scores |-> file.table]

\* save_scores; wr: "ok", "open_fails" (file untouched) or "dump_fails" (file
\* opened for writing, hence truncated, and the dump interrupted); the error is caught
save_scores(file, scores, wr) ==
    CASE wr = "ok" -> [exc |-> FALSE, file |-> [state |-> "ok", table |-> scores]]
      [] wr = "open_fails" -> [exc |-> FALSE, file |-> file]
      [] OTHER -> [exc |-> FALSE, file |-> [state |-> "corrupt", table |-> <<>>]]

\* the legacy reset that also takes a score of exactly 25 for a legacy one
ResetLegacy_from_25(current_scores) ==
    [ i \in 1..Len(current_scores) |->
        IF ~RatLess(current_scores[i][2], <<25, 1>>)
        THEN <<current_scores[i][1], <<0, 1>>>> ELSE current_scores[i] ]

\* step 1: legacy reset
ResetLegacy(current_scores) ==
    [ i \in 1..Len(current_scores) |->
        IF RatLess(<<25, 1>>, current_scores[i][2])
        THEN <<current_scores[i][1], <<0, 1>>>> ELSE current_scores[i] ]

\* step 2: round_stats = {model: {'points': 0, 'reviews': 0} for model in label_to_model.values()}
InitRoundStats(label_to_model_) ==
    DictFromPairs([ i \in 1..Len(label_to_model_) |-> <<label_to_model_[i][2], <<0, 0>>>> ])

RECURSIVE AddPoints(_, _)
AddPoints(round_stats, points_map) ==
    IF points_map = <<>> THEN round_stats
    ELSE LET model == Head(points_map)[1]
             points == Head(points_map)[2]
             next == IF DictHas(round_stats, model)
                     THEN LET st == DictGet(round_stats, model)
                          IN DictSet(round_stats, model, <<st[1] + points, st[2] + 1>>)
                     ELSE round_stats
         IN AddPoints(next, Tail(points_map))

RECURSIVE RoundStats(_, _, _)
RoundStats(stage2_results_, label_to_model_, n) ==
    IF n = 0 THEN InitRoundStats(label_to_model_)
    ELSE LET result == stage2_results_[n]
             ranked_labels == parse_ranking_from_text(result.ranking)
             points_map == calculate_points_for_review(ranked_labels, result.model, label_to_model_)
         IN AddPoints(RoundStats(stage2_results_, label_to_model_, n - 1), points_map)

\* round((prev_score * (1 - EMA_ALPHA)) + (round_avg_score * EMA_ALPHA), 2) in
\* doubles. Off a tie the roundings of the operands, products and sum leave
\* the double sum within a few units in its last place of the exact blend
\* p / q, which is at least 1 / (200 * q) from the nearest tie, so it rounds as
\* the exact blend does; at a tie the double sum itself decides
Blend(prev_score, round_avg_score) ==
    LET exact == RatAdd(RatMul(prev_score, RatAdd(<<1, 1>>, <<-EMA_ALPHA[1], EMA_ALPHA[2]>>)),
                        RatMul(round_avg_score, EMA_ALPHA))
        alpha == FDiv(EMA_ALPHA[1], EMA_ALPHA[2])
        sum == FAdd(FMul(FDiv(prev_score[1], prev_score[2]), FSub(FDiv(1, 1), alpha)),
                    FMul(FDiv(round_avg_score[1], round_avg_score[2]), alpha))
    IN IF IsTie(exact) THEN Rat(FRound2(sum), 100) ELSE Nearest(exact)

\* step 3: EMA updates over round_stats[1..n]
RECURSIVE ApplyEMA(_, _, _)
ApplyEMA(current_scores, round_stats, n) ==
    IF n = 0 THEN current_scores
    ELSE LET cur == ApplyEMA(current_scores, round_stats, n - 1)
             model == round_stats[n][1]
             stats == round_stats[n][2]
         IN IF stats[2] = 0 THEN cur
            ELSE LET round_avg_score == Rat(stats[1], stats[2])
                     clean_name == clean_model_name(model)
                 IN IF ~DictHas(cur, clean_name) \/ DictGet(cur, clean_name) = <<0, 1>>
                    THEN DictSet(cur, clean_name, round_avg_score)
                    ELSE LET prev_score == DictGet(cur, clean_name)
                         IN DictSet(cur, clean_name, Blend(prev_score, round_avg_score))

\* the update with a review that names nobody counted in every divisor
UpdatedTable_counts_empty_reviews(stage2_results_, label_to_model_, loaded) ==
    LET round_stats == RoundStats(stage2_results_, label_to_model_, Len(stage2_results_))
        empty == Len(SelectSeq(stage2_results_,
                               LAMBDA r : parse_ranking_from_text(r.ranking) = <<>>))
        diluted == [ i \in 1..Len(round_stats) |->
                       <<round_stats[i][1],
                         <<round_stats[i][2][1],
                           IF round_stats[i][2][2] > 0 THEN round_stats[i][2][2] + empty ELSE 0>>>> ]
    IN ApplyEMA(ResetLegacy(loaded), diluted, Len(diluted))

\* the update that blends every round average into the stored score
UpdatedTable_no_fast_start(stage2_results_, label_to_model_, loaded) ==
    LET round_stats == RoundStats(stage2_results_, label_to_model_, Len(stage2_results_))
        zeroed == ResetLegacy(loaded)
        filled == zeroed \o SelectSeq([ i \in 1..Len(round_stats) |-> <<round_stats[i][1], <<0, 1>>>> ],
                                      LAMBDA e : ~DictHas(zeroed, e[1]))
        blend(e) == IF DictHas(round_stats, e[1]) /\ DictGet(round_stats, e[1])[2] > 0
                    THEN LET st == DictGet(round_stats, e[1])
                         IN <<e[1], Blend(e[2], Rat(st[1], st[2]))>>
                    ELSE e
    IN [ i \in 1..Len(filled) |-> blend(filled[i]) ]

\* the update that divides every agent's points by the number of reviews
UpdatedTable_divides_by_all_reviews(stage2_results_, label_to_model_, loaded) ==
    LET round_stats == RoundStats(stage2_results_, label_to_model_, Len(stage2_results_))
        diluted == [ i \in 1..Len(round_stats) |->
                       <<round_stats[i][1],
                         <<round_stats[i][2][1],
                           IF round_stats[i][2][2] > 0 THEN Len(stage2_results_) ELSE 0>>>> ]
    IN ApplyEMA(ResetLegacy(loaded), diluted, Len(diluted))

\* the update that lets the score of an agent without points this round decay
UpdatedTable_decays_unmentioned(stage2_results_, label_to_model_, loaded) ==
    LET round_stats == RoundStats(stage2_results_, label_to_model_, Len(stage2_results_))
        updated == ApplyEMA(ResetLegacy(loaded), round_stats, Len(round_stats))
        awarded == { clean_model_name(round_stats[i][1]) :
                       i \in { j \in 1..Len(round_stats) : round_stats[j][2][2] > 0 } }
    IN [ i \in 1..Len(updated) |->
           IF updated[i][1] \in awarded THEN updated[i]
           ELSE <<updated[i][1], Round2(RatMul(updated[i][2], <<4, 5>>))>> ]

\* the table update_scores hands to save_scores
UpdatedTable(stage2_results_, label_to_model_, loaded) ==
    LET round_stats == RoundStats(stage2_results_, label_to_model_, Len(stage2_results_))
    IN ApplyEMA(ResetLegacy(loaded), round_stats, Len(round_stats))

\* update_scores: the score file after the call, and whether it raised
update_scores(file, stage2_results_, label_to_model_, rd_error, wr) ==
    LET loaded == get_scores(file, rd_error)
    IN IF loaded.exc THEN [exc |-> TRUE, file |-> file]
       ELSE save_scores(file, UpdatedTable(stage2_results_, label_to_model_, loaded.scores), wr)

----------------------------------------------------------------------------
(* council.calculate_aggregate_rankings *)

RECURSIVE AddPositions(_, _, _, _)
AddPositions(model_positions, parsed_ranking, label_to_model_, n) ==
    IF n = 0 THEN model_positions
    ELSE LET acc == AddPositions(model_positions, parsed_ranking, label_to_model_, n - 1)
             label == parsed_ranking[n]
         IN IF DictHas(label_to_model_, label)
            THEN LET model_name == DictGet(label_to_model_, label)
                     old == IF DictHas(acc, model_name) THEN DictGet(acc, model_name) ELSE <<>>
                 IN DictSet(acc, model_name, Append(old, n))
            ELSE acc

RECURSIVE ModelPositions(_, _, _)
ModelPositions(stage2_results_, label_to_model_, n) ==
    IF n = 0 THEN <<>>
    ELSE LET parsed_ranking == parse_ranking_from_text(stage2_results_[n].ranking)
         IN AddPositions(ModelPositions(stage2_results_, label_to_model_, n - 1),
                         parsed_ranking, label_to_model_, Len(parsed_ranking))

\* calculate_aggregate_rankings without the rounding of the average
calculate_aggregate_rankings_unrounded(stage2_results_, label_to_model_) ==
    LET model_positions == ModelPositions(stage2_results_, label_to_model_, Len(stage2_results_))
        aggregate == [ i \in 1..Len(model_positions) |->
                         <<[model |-> model_positions[i][1],
                            average_rank |-> Rat(SumSeq(model_positions[i][2]),
                                                 Len(model_positions[i][2])),
                            rankings_count |-> Len(model_positions[i][2])],
                           Rat(SumSeq(model_positions[i][2]), Len(model_positions[i][2]))>> ]
        sorted == SortByKey(aggregate)
    IN [ i \in 1..Len(sorted) |-> sorted[i][1] ]

\* calculate_aggregate_rankings without the final sort
calculate_aggregate_rankings_unsorted(stage2_results_, label_to_model_) ==
    LET model_positions == ModelPositions(stage2_results_, label_to_model_, Len(stage2_results_))
    IN [ i \in 1..Len(model_positions) |->
           [model |-> model_positions[i][1],
            average_rank |-> Round2(Rat(SumSeq(model_positions[i][2]),
                                        Len(model_positions[i][2]))),
            rankings_count |-> Len(model_positions[i][2])] ]

\* calculate_aggregate_rankings whose rankings_count is the number of reviews
\* that name the agent
calculate_aggregate_rankings_counts_reviewers(stage2_results_, label_to_model_) ==
    LET model_positions == ModelPositions(stage2_results_, label_to_model_, Len(stage2_results_))
        names(r, model) == LET parsed == parse_ranking_from_text(r.ranking)
                           IN \E p \in 1..Len(parsed) :
                                 /\ DictHas(label_to_model_, parsed[p])
                                 /\ DictGet(label_to_model_, parsed[p]) = model
        aggregate == [ i \in 1..Len(model_positions) |->
                         <<[model |-> model_positions[i][1],
                            average_rank |-> Round2(Rat(SumSeq(model_positions[i][2]),
                                                        Len(model_positions[i][2]))),
                            rankings_count |-> Len(SelectSeq(stage2_results_,
                                                   LAMBDA r : names(r, model_positions[i][1])))],
                           Round2(Rat(SumSeq(model_positions[i][2]), Len(model_positions[i][2])))>> ]
        sorted == SortByKey(aggregate)
    IN [ i \in 1..Len(sorted) |-> sorted[i][1] ]

calculate_aggregate_rankings(stage2_results_, label_to_model_) ==
    LET model_positions == ModelPositions(stage2_results_, label_to_model_, Len(stage2_results_))
        aggregate == [ i \in 1..Len(model_positions) |->
                         <<[model |-> model_positions[i][1],
                            average_rank |-> Round2(Rat(SumSeq(model_positions[i][2]),
                                                        Len(model_positions[i][2]))),
                            rankings_count |-> Len(model_positions[i][2])],
                           Round2(Rat(SumSeq(model_positions[i][2]), Len(model_positions[i][2])))>> ]
        sorted == SortByKey(aggregate)
    IN [ i \in 1..Len(sorted) |-> sorted[i][1] ]

----------------------------------------------------------------------------
(* Prompt building.  A label is <<letter, round suffix>>: <<"A", "">> is    *)
(* "A", <<"A", "2">> is "A2".  A prompt is a record of its variable parts.  *)

LabelStr(label) == label[1] \o label[2]

\* the text of one label reference, f"Response {label}", as a one-token text
LabelText(label) == <<ResponseLabel(LabelStr(label))>>

\* council._format_context: messages are [role, content, stage3], stage3 = <<>>
\* when the assistant message carries no stage3 dict, else <<response text>>
RECURSIVE FormatMessages(_, _)
FormatMessages(msgs, turn_count) ==
    IF msgs = <<>> THEN <<>>
    ELSE LET msg == Head(msgs)
         IN IF msg.role = "user"
            THEN <<"User Question " \o ToString(turn_count) \o ":">> \o msg.content
                 \o FormatMessages(Tail(msgs), turn_count)
            ELSE IF msg.role = "assistant"
            THEN <<"LLM Answer " \o ToString(turn_count) \o ":">>
                 \o (IF msg.stage3 = <<>> THEN <<"(No response)">> ELSE msg.stage3[1])
                 \o FormatMessages(Tail(msgs), turn_count + 1)
            ELSE FormatMessages(Tail(msgs), turn_count)

format_context(context_messages) ==
    IF context_messages = <<>> THEN <<>>
    ELSE <<"PREVIOUS CONTEXT:">> \o FormatMessages(context_messages, 1) \o <<"CURRENT TASK:">>

\* labels of one letter, in list order
GroupOf(labels, letter) == SelectSeq(labels, LAMBDA l : l[1] = letter)

\* the groups with more than one label, sorted by letter
GroupExplanations(labels) ==
    LET big == { i \in 1..Len(Letters) : Len(GroupOf(labels, Letters[i])) > 1 }
        RECURSIVE Build(_)
        Build(i) == IF i > Len(Letters) THEN <<>>
                    ELSE IF i \in big THEN <<[ k \in 1..Len(GroupOf(labels, Letters[i])) |->
                                               LabelStr(GroupOf(labels, Letters[i])[k]) ]>> \o Build(i + 1)
                    ELSE Build(i + 1)
    IN Build(1)

\* the labels of zip(labels, stage1_results): those that have a result
ZippedLabels(stage1_results_, labels) ==
    SubSeq(labels, 1, IF Len(labels) < Len(stage1_results_) THEN Len(labels)
                      ELSE Len(stage1_results_))

\* zip(labels, stage1_results) rendered as "Response {label}:\n{response}"
ResponsesText(stage1_results_, labels) ==
    LET zipped == ZippedLabels(stage1_results_, labels)
    IN [ i \in 1..Len(zipped) |-> [label |-> ResponseLabel(LabelStr(zipped[i])),
                                   response |-> stage1_results_[i].response] ]

\* build_ranking_prompt that heads each response with its model's name
build_ranking_prompt_named(user_query, stage1_results_, labels, context_messages) ==
    LET is_multi_round == Len(labels) > 0 /\ labels[1][2] # ""
        shown == ResponsesText(stage1_results_, labels)
    IN [ kind |-> "ranking",
         context |-> format_context(context_messages),
         question |-> user_query,
         responses |-> [ i \in 1..Len(shown) |->
                           [label |-> shown[i].label,
                            response |-> stage1_results_[i].model \o shown[i].response] ],
         note |-> IF is_multi_round
                  THEN GroupExplanations(ZippedLabels(stage1_results_, labels)) ELSE <<>> ]

\* council.build_ranking_prompt
build_ranking_prompt(user_query, stage1_results_, labels, context_messages) ==
    LET is_multi_round == Len(labels) > 0 /\ labels[1][2] # ""
    IN [ kind |-> "ranking",
         context |-> format_context(context_messages),
         question |-> user_query,
         responses |-> ResponsesText(stage1_results_, labels),
         note |-> IF is_multi_round
                  THEN GroupExplanations(ZippedLabels(stage1_results_, labels)) ELSE <<>> ]

\* first index of x in the list
IndexOf(list, x) == CHOOSE i \in 1..Len(list) : list[i] = x /\ \A j \in 1..(i - 1) : list[j] # x

\* build_chairman_prompt, lines 427-440: model_order after the first n results
RECURSIVE ModelOrder(_, _)
ModelOrder(stage1_results_, n) ==
    IF n = 0 THEN <<>>
    ELSE LET prev == ModelOrder(stage1_results_, n - 1)
             model_key == stage1_results_[n].model
         IN IF model_key \in Range(prev) THEN prev ELSE Append(prev, model_key)

\* labels that give each agent its letter and drop the round number
Stage2Labels_by_agent(stage1_results_) ==
    [ n \in 1..Len(stage1_results_) |->
        <<Chr65(IndexOf(ModelOrder(stage1_results_, n), stage1_results_[n].model) - 1), "">> ]

\* labels = [chr(65 + i) for i in range(len(stage1_results))]
Stage2Labels(stage1_results_) ==
    [ i \in 1..Len(stage1_results_) |-> <<Chr65(i - 1), "">> ]

\* label_to_model = {f"Response {label}": result['model'] for label, result in zip(...)}
LabelToModel(labels, stage1_results_) ==
    DictFromPairs([ i \in 1..Len(labels) |->
                      <<ResponseLabel(LabelStr(labels[i])), stage1_results_[i].model>> ])

\* build_chairman_prompt, lines 431-440
ChairmanLabels(stage1_results_) ==
    [ n \in 1..Len(stage1_results_) |->
        LET model_key == stage1_results_[n].model
            letter_idx == IndexOf(ModelOrder(stage1_results_, n), model_key) - 1
            round_num == Cardinality({ j \in 1..n : stage1_results_[j].model = model_key })
        IN <<Chr65(letter_idx), ToString(round_num)>> ]

\* model_to_label: the last label of each model
ModelToLabel(labels, stage1_results_) ==
    DictFromPairs([ i \in 1..Len(labels) |-> <<stage1_results_[i].model, LabelText(labels[i])>> ])

\* council.build_chairman_prompt
build_chairman_prompt(user_query, stage1_results_, stage2_results_, context_messages) ==
    LET labels == ChairmanLabels(stage1_results_)
        is_multi_round == \E i \in 1..Len(stage1_results_) : labels[i][2] # "1"
        model_to_label == ModelToLabel(labels, stage1_results_)
    IN [ kind |-> "chairman",
         context |-> format_context(context_messages),
         question |-> user_query,
         responses |-> ResponsesText(stage1_results_, labels),
         note |-> IF is_multi_round THEN GroupExplanations(labels) ELSE <<>>,
         rankings |-> [ i \in 1..Len(stage2_results_) |->
                          [by |-> IF DictHas(model_to_label, stage2_results_[i].model)
                                  THEN DictGet(model_to_label, stage2_results_[i].model)
                                  ELSE stage2_results_[i].model,
                           ranking |-> stage2_results_[i].ranking] ] ]

----------------------------------------------------------------------------
(* Deployment: the configured council, the chairman, the provider          *)

NameChatGPT == <<"Chat", " ", "GPT">>
NameClaude == <<"Claude">>
NameClaudeExt == <<"Claude", " ", "[Ext.", " ", "Thinking", "]">>
NameGemini == <<"Gemini">>

\* config.COUNCIL_MODELS: the deployments explored
Configs == { <<NameChatGPT, NameClaude, NameGemini>>,
             <<NameClaude, NameClaudeExt, NameGemini>> }

\* config.CHAIRMAN_MODEL
CHAIRMAN_MODEL == <<"Gemini", " ", "Thinking">>

UserQuery == <<"question">>

\* the text agent i answers in Stage1
Answer(i) == <<"answer" \o ToString(i)>>

\* the text the chairman answers
Synthesis == <<"synthesis">>

\* reviewer replies explored in Stage2
Replies == { <<"critique", Marker, "1.", "Response A", "2.", "Response B", "3.", "Response C">>,
             <<Marker, "1.", "Response B", "2.", "Response A", "3.", "Response C">>,
             <<"no", "ranking", "given">> }

\* score files a turn may find on disk
InitialFiles == { [state |-> "missing", table |-> <<>>],
                  [state |-> "ok", table |-> << <<NameClaude, <<500, 1>>>>, <<NameGemini, <<0, 1>>>> >>],
                  [state |-> "ok", table |-> << <<NameClaude, <<10, 1>>>>, <<NameGemini, <<25, 1>>>> >>] }

\* a provider response: None, or a dict with 'content'
None == [ok |-> FALSE, content |-> <<>>]
Response(content) == [ok |-> TRUE, content |-> content]

\* query_model that hands an empty reply on as a response
query_model_keeps_empty(outcome, content) ==
    IF outcome = "ok" THEN Response(content) ELSE None

\* openrouter.query_model: text on success; any error, timeout or empty
\* result is "no answer" (None); it never raises
query_model(outcome, content) ==
    IF outcome = "ok" /\ content # <<>> THEN Response(content) ELSE None

\* openrouter.query_models_parallel: one query per model, gathered after
\* all have settled into a dict in the order of the models list
query_models_parallel(models, outcomes, contents) ==
    DictFromPairs([ i \in 1..Len(models) |-> <<models[i], query_model(outcomes[i], contents[i])>> ])

----------------------------------------------------------------------------
(* council.py stages *)

\* stage1_collect_responses that lists the answers in completion order
stage1_collect_responses_completion_order(responses) ==
    LET done == SelectSeq(order1, LAMBDA i : responses[i][2].ok)
    IN [ k \in 1..Len(done) |-> [model |-> clean_model_name(responses[done[k]][1]),
                                 response |-> responses[done[k]][2].content] ]

\* stage1_collect_responses that gives up as soon as one query has failed
stage1_collect_responses_fail_fast(responses) ==
    IF \E i \in 1..Len(responses) : ~responses[i][2].ok THEN <<>>
    ELSE [ i \in 1..Len(responses) |-> [model |-> clean_model_name(responses[i][1]),
                                        response |-> responses[i][2].content] ]

\* stage1_collect_responses without the 'is not None' test: a failed query
\* yields an entry with an empty response
stage1_collect_responses_keeps_failed(responses) ==
    [ i \in 1..Len(responses) |-> [model |-> clean_model_name(responses[i][1]),
                                   response |-> responses[i][2].content] ]

\* stage1_collect_responses, lines 200-211
stage1_collect_responses(responses) ==
    LET kept == SelectSeq(responses, LAMBDA e : e[2].ok)
    IN [ i \in 1..Len(kept) |-> [model |-> clean_model_name(kept[i][1]),
                                 response |-> kept[i][2].content] ]

\* stage2_collect_rankings that drops every ranking once one query has failed
FormatStage2_fail_fast(responses) ==
    IF \E i \in 1..Len(responses) : ~responses[i][2].ok THEN <<>>
    ELSE [ i \in 1..Len(responses) |-> [model |-> clean_model_name(responses[i][1]),
                                        ranking |-> responses[i][2].content,
                                        parsed_ranking |-> parse_ranking_from_text(responses[i][2].content)] ]

\* stage2_collect_rankings, lines 245-255
FormatStage2(responses) ==
    LET kept == SelectSeq(responses, LAMBDA e : e[2].ok)
    IN [ i \in 1..Len(kept) |-> [model |-> clean_model_name(kept[i][1]),
                                 ranking |-> kept[i][2].content,
                                 parsed_ranking |-> parse_ranking_from_text(kept[i][2].content)] ]

\* stage3_synthesize_final without the fallback: response.get on None raises
stage3_synthesize_final_no_fallback(response) ==
    [exc |-> ~response.ok, model |-> clean_model_name(CHAIRMAN_MODEL),
     response |-> response.content]

\* stage3_synthesize_final, lines 392-402; exc marks an exception raised
stage3_synthesize_final(response) ==
    IF ~response.ok
    THEN [exc |-> FALSE, model |-> CHAIRMAN_MODEL,
          response |-> <<"Error: Unable to generate final synthesis.">>]
    ELSE [exc |-> FALSE, model |-> clean_model_name(CHAIRMAN_MODEL),
          response |-> response.content]

\* run_full_council, line 998
NoModelsResult == [exc |-> FALSE, model |-> CHAIRMAN_MODEL,
                   response |-> <<"Error: No models available.">>]

NoResult == [exc |-> FALSE, model |-> <<>>, response |-> <<>>]
NoPrompt == [kind |-> "none"]
NoWeb == [op |-> "none"]
NoErr == [rd |-> FALSE, wr |-> "ok"]
NoFile == [state |-> "missing", table |-> <<>>]

\* a test of 'not stage1_results' that never fires
NoModelsResponded_never(stage1_results_) == FALSE

\* run_full_council, line 997: if not stage1_results
NoModelsResponded(stage1_results_) == stage1_results_ = <<>>

Agents == 1..Len(config)

----------------------------------------------------------------------------
(* storage: the conversation files *)

ConvIds == 1..MaxConvs

\* no file under this id yet / the file removed
NoConv == [status |-> "unused", title |-> "", messages |-> 0]
Removed == [status |-> "deleted", title |-> "", messages |-> 0]

\* os.path.exists(get_conversation_path(conversation_id))
Exists(convs, id) == id \in ConvIds /\ convs[id].status = "stored"

\* storage.create_conversation
storage_create_conversation(convs, id) ==
    [convs EXCEPT ![id] = [status |-> "stored", title |-> "New Conversation", messages |-> 0]]

\* storage.add_user_message / storage.add_assistant_message: exc is the ValueError
storage_add_message(convs, id) ==
    IF Exists(convs, id)
    THEN [exc |-> FALSE, convs |-> [convs EXCEPT ![id].messages = @ + 1]]
    ELSE [exc |-> TRUE, convs |-> convs]

\* storage.update_conversation_title: exc is the ValueError
storage_update_conversation_title(convs, id, title) ==
    IF Exists(convs, id)
    THEN [exc |-> FALSE, convs |-> [convs EXCEPT ![id].title = title]]
    ELSE [exc |-> TRUE, convs |-> convs]

\* a delete that reports success for any id
storage_delete_conversation_always_true(convs, id) ==
    [ok |-> TRUE, convs |-> IF Exists(convs, id) THEN [convs EXCEPT ![id] = Removed] ELSE convs]

\* storage.delete_conversation: ok is the value returned
storage_delete_conversation(convs, id) ==
    IF Exists(convs, id)
    THEN [ok |-> TRUE, convs |-> [convs EXCEPT ![id] = Removed]]
    ELSE [ok |-> FALSE, convs |-> convs]

\* storage.list_conversations: id and title of every stored conversation
storage_list_conversations(convs) ==
    { <<id, convs[id].title>> : id \in { i \in ConvIds : convs[i].status = "stored" } }

NoHandler == [pc |-> "idle", id |-> 0, first |-> FALSE]
NoResponse == [op |-> "none"]

InitConversations ==
    /\ conversations = [ id \in ConvIds |-> NoConv ]
    /\ handlers = [ h \in 1..MaxInFlight |-> NoHandler ]
    /\ http_response = NoResponse
    /\ renamed = [ id \in ConvIds |-> "" ]

----------------------------------------------------------------------------
(* The turn *)

Init ==
    /\ config \in Configs
    /\ scores_file \in InitialFiles
    /\ turn = 0
    /\ entry = "none"
    /\ pc = "idle"
    /\ q1 = [ i \in Agents |-> "idle" ]
    /\ order1 = <<>>
    /\ q2 = [ i \in Agents |-> [st |-> "idle", reply |-> <<>>] ]
    /\ qc = "idle"
    /\ stage1_results = <<>>
    /\ stage2_results = <<>>
    /\ label_to_model = <<>>
    /\ aggregate_rankings = <<>>
    /\ chairman_prompt = NoPrompt
    /\ ranking_prompt = NoPrompt
    /\ stage3_result = NoResult
    /\ raised = FALSE
    /\ nUpdates = 0
    /\ nReads = 0
    /\ nWrites = 0
    /\ updErr = NoErr
    /\ scores_before = NoFile
    /\ web = NoWeb
    /\ InitConversations

\* run_full_council is called ("full"); Stage1 issues all its queries together
StartTurn ==
    /\ pc = "idle"
    /\ turn < MaxTurns
    /\ turn' = turn + 1
    /\ entry' = "full"
    /\ pc' = "stage1"
    /\ q1' = [ i \in Agents |-> "inflight" ]
    /\ UNCHANGED <<config, scores_file, order1, q2, qc, stage1_results, stage2_results,
                   label_to_model, aggregate_rankings, chairman_prompt, ranking_prompt,
                   stage3_result, raised, nUpdates, nReads, nWrites, updErr, scores_before, web>>
    /\ UNCHANGED ConvVars

\* the provider settles one Stage1 query
SettleStage1(i, outcome) ==
    /\ pc = "stage1"
    /\ q1[i] = "inflight"
    /\ q1' = [q1 EXCEPT ![i] = outcome]
    /\ order1' = Append(order1, i)
    /\ UNCHANGED <<config, scores_file, turn, entry, pc, q2, qc, stage1_results,
                   stage2_results, label_to_model, aggregate_rankings, chairman_prompt,
                   ranking_prompt, stage3_result, raised, nUpdates, nReads, nWrites,
                   updErr, scores_before, web>>
    /\ UNCHANGED ConvVars

\* all Stage1 queries have settled: stage1_collect_responses returns
GatherStage1 ==
    /\ pc = "stage1"
    /\ \A i \in Agents : q1[i] \in {"ok", "fail"}
    /\ LET responses == query_models_parallel(config, q1, [ i \in Agents |-> Answer(i) ])
       IN stage1_results' = stage1_collect_responses(responses)
    /\ pc' = "stage1_done"
    /\ UNCHANGED <<config, scores_file, turn, entry, q1, order1, q2, qc, stage2_results,
                   label_to_model, aggregate_rankings, chairman_prompt, ranking_prompt,
                   stage3_result, raised, nUpdates, nReads, nWrites, updErr, scores_before, web>>
    /\ UNCHANGED ConvVars

\* run_full_council, lines 997-998: no model responded
ReturnNoModels ==
    /\ pc = "stage1_done"
    /\ entry = "full"
    /\ NoModelsResponded(stage1_results)
    /\ stage3_result' = NoModelsResult
    /\ pc' = "done"
    /\ order1' = <<>>
    /\ UNCHANGED <<config, scores_file, turn, entry, q1, q2, qc, stage1_results,
                   stage2_results, label_to_model, aggregate_rankings, chairman_prompt,
                   ranking_prompt, raised, nUpdates, nReads, nWrites, updErr, scores_before, web>>
    /\ UNCHANGED ConvVars

\* stage2_collect_rankings, lines 228-243: labels, map, prompt, queries issued
IssueStage2 ==
    /\ pc = "stage1_done"
    /\ ~NoModelsResponded(stage1_results)
    /\ LET labels == Stage2Labels(stage1_results)
       IN /\ label_to_model' = LabelToModel(labels, stage1_results)
          /\ ranking_prompt' = build_ranking_prompt(UserQuery, stage1_results, labels, <<>>)
    /\ q2' = [ i \in Agents |-> [st |-> "inflight", reply |-> <<>>] ]
    /\ pc' = "stage2"
    /\ order1' = <<>>
    /\ UNCHANGED <<config, scores_file, turn, entry, q1, qc, stage1_results, stage2_results,
                   aggregate_rankings, chairman_prompt, stage3_result, raised,
                   nUpdates, nReads, nWrites, updErr, scores_before, web>>
    /\ UNCHANGED ConvVars

\* the provider settles one Stage2 query
SettleStage2(i, outcome, reply) ==
    /\ pc = "stage2"
    /\ q2[i].st = "inflight"
    /\ q2' = [q2 EXCEPT ![i] = [st |-> outcome, reply |-> IF outcome = "ok" THEN reply ELSE <<>>]]
    /\ UNCHANGED <<config, scores_file, turn, entry, pc, q1, order1, qc, stage1_results,
                   stage2_results, label_to_model, aggregate_rankings, chairman_prompt,
                   ranking_prompt, stage3_result, raised, nUpdates, nReads, nWrites,
                   updErr, scores_before, web>>
    /\ UNCHANGED ConvVars

\* all Stage2 queries have settled: stage2_collect_rankings returns and the
\* caller computes the leaderboard
GatherStage2 ==
    /\ pc = "stage2"
    /\ \A i \in Agents : q2[i].st \in {"ok", "fail"}
    /\ LET responses == query_models_parallel(config, [ i \in Agents |-> q2[i].st ],
                                              [ i \in Agents |-> q2[i].reply ])
           results == FormatStage2(responses)
       IN /\ stage2_results' = results
          /\ aggregate_rankings' = calculate_aggregate_rankings(results, label_to_model)
    /\ pc' = "stage2_done"
    /\ UNCHANGED <<config, scores_file, turn, entry, q1, order1, q2, qc, stage1_results,
                   label_to_model, chairman_prompt, ranking_prompt, stage3_result, raised,
                   nUpdates, nReads, nWrites, updErr, scores_before, web>>
    /\ UNCHANGED ConvVars

\* run_full_council, line 1007: update_scores, with the store errors it may meet
UpdateScores(rd_error, wr) ==
    /\ pc = "stage2_done"
    /\ entry = "full"
    /\ LET r == update_scores(scores_file, stage2_results, label_to_model, rd_error, wr)
       IN /\ scores_file' = r.file
          /\ raised' = r.exc
          /\ pc' = IF r.exc THEN "done" ELSE "updated"
          /\ nWrites' = nWrites + (IF r.exc THEN 0 ELSE 1)
    /\ nUpdates' = nUpdates + 1
    /\ nReads' = nReads + 1
    /\ updErr' = [rd |-> rd_error, wr |-> wr]
    /\ scores_before' = scores_file
    /\ UNCHANGED <<config, turn, entry, q1, order1, q2, qc, stage1_results, stage2_results,
                   label_to_model, aggregate_rankings, chairman_prompt, ranking_prompt,
                   stage3_result, web>>
    /\ UNCHANGED ConvVars

\* stage3_synthesize_final, lines 385-390: prompt built, chairman queried
IssueStage3 ==
    /\ pc = "updated"
    /\ chairman_prompt' = build_chairman_prompt(UserQuery, stage1_results, stage2_results, <<>>)
    /\ qc' = "inflight"
    /\ pc' = "stage3"
    /\ UNCHANGED <<config, scores_file, turn, entry, q1, order1, q2, stage1_results,
                   stage2_results, label_to_model, aggregate_rankings, ranking_prompt,
                   stage3_result, raised, nUpdates, nReads, nWrites, updErr, scores_before, web>>
    /\ UNCHANGED ConvVars

\* the chairman query settles and the turn returns its Stage3 result
SettleChairman(outcome) ==
    /\ pc = "stage3"
    /\ qc = "inflight"
    /\ qc' = outcome
    /\ LET r == stage3_synthesize_final(query_model(outcome, Synthesis))
       IN /\ stage3_result' = r
          /\ raised' = r.exc
    /\ pc' = "done"
    /\ UNCHANGED <<config, scores_file, turn, entry, q1, order1, q2, stage1_results,
                   stage2_results, label_to_model, aggregate_rankings, chairman_prompt,
                   ranking_prompt, nUpdates, nReads, nWrites, updErr, scores_before, web>>
    /\ UNCHANGED ConvVars

\* the response is delivered; the turn's locals are dropped
FinishTurn ==
    /\ pc = "done"
    /\ pc' = "idle"
    /\ entry' = "none"
    /\ q1' = [ i \in Agents |-> "idle" ]
    /\ q2' = [ i \in Agents |-> [st |-> "idle", reply |-> <<>>] ]
    /\ qc' = "idle"
    /\ stage1_results' = <<>>
    /\ stage2_results' = <<>>
    /\ label_to_model' = <<>>
    /\ aggregate_rankings' = <<>>
    /\ chairman_prompt' = NoPrompt
    /\ ranking_prompt' = NoPrompt
    /\ stage3_result' = NoResult
    /\ raised' = FALSE
    /\ nUpdates' = 0
    /\ nReads' = 0
    /\ nWrites' = 0
    /\ updErr' = NoErr
    /\ scores_before' = NoFile
    /\ UNCHANGED <<config, scores_file, turn, order1, web>>
    /\ UNCHANGED ConvVars

Next ==
    \/ StartTurn
    \/ \E i \in Agents, outcome \in {"ok", "fail"} : SettleStage1(i, outcome)
    \/ GatherStage1
    \/ ReturnNoModels
    \/ IssueStage2
    \/ \E i \in Agents, outcome \in {"ok", "fail"}, reply \in Replies : SettleStage2(i, outcome, reply)
    \/ GatherStage2
    \/ \E rd_error \in BOOLEAN, wr \in {"ok", "open_fails", "dump_fails"} : UpdateScores(rd_error, wr)
    \/ IssueStage3
    \/ \E outcome \in {"ok", "fail"} : SettleChairman(outcome)
    \/ FinishTurn

Spec == Init /\ [][Next]_vars

----------------------------------------------------------------------------
(* The web-chatbot helper endpoints of main.py: stateless prompt builders  *)
(* fed with the stage results the client sends                             *)

WebModels == { <<"Model", " ", "A">>, <<"Model", " ", "B">> }
WebReviewers == WebModels \cup { <<"Model", " ", "C">> }
WebTexts == { <<"Paris">>, <<"The", "capital", "is", "Paris.">> }
WebRankings == { <<Marker, "1.", "Response B1", "2.", "Response A1">> }
WebContexts == { <<>>,
                 << [role |-> "user", content |-> <<"earlier">>, stage3 |-> <<>>],
                    [role |-> "assistant", content |-> <<>>, stage3 |-> << <<"reply">> >>] >> }

SeqsUpTo(S, n) == UNION { [1..k -> S] : k \in 0..n }

WebStage1Lists == SeqsUpTo([model : WebModels, response : WebTexts], MaxWebResp)
WebStage2Lists == SeqsUpTo([model : WebReviewers, ranking : WebRankings], 2)

InitWeb ==
    /\ config = <<NameChatGPT, NameClaude, NameGemini>>
    /\ scores_file = [state |-> "missing", table |-> <<>>]
    /\ turn = 0
    /\ entry = "none"
    /\ pc = "web"
    /\ q1 = [ i \in Agents |-> "idle" ]
    /\ order1 = <<>>
    /\ q2 = [ i \in Agents |-> [st |-> "idle", reply |-> <<>>] ]
    /\ qc = "idle"
    /\ stage1_results = <<>>
    /\ stage2_results = <<>>
    /\ label_to_model = <<>>
    /\ aggregate_rankings = <<>>
    /\ chairman_prompt = NoPrompt
    /\ ranking_prompt = NoPrompt
    /\ stage3_result = NoResult
    /\ raised = FALSE
    /\ nUpdates = 0
    /\ nReads = 0
    /\ nWrites = 0
    /\ updErr = NoErr
    /\ scores_before = NoFile
    /\ web = NoWeb
    /\ InitConversations

WebUnchanged ==
    UNCHANGED <<config, scores_file, turn, entry, pc, q1, order1, q2, qc, stage1_results,
                stage2_results, label_to_model, aggregate_rankings, chairman_prompt,
                ranking_prompt, stage3_result, raised, nUpdates, nReads, nWrites, updErr,
                scores_before, conversations, handlers, http_response, renamed>>

\* POST /api/web-chatbot/stage2-prompt
web_chatbot_stage2_prompt(req_stage1, previous_messages) ==
    /\ pc = "web"
    /\ web = NoWeb
    /\ LET labels == Stage2Labels(req_stage1)
       IN web' = [op |-> "stage2_prompt",
                  stage1_results |-> req_stage1,
                  stage2_results |-> <<>>,
                  prompt |-> build_ranking_prompt(UserQuery, req_stage1, labels, previous_messages),
                  label_to_model |-> LabelToModel(labels, req_stage1)]
    /\ WebUnchanged

\* POST /api/web-chatbot/stage3-prompt
web_chatbot_stage3_prompt(req_stage1, req_stage2, previous_messages) ==
    /\ pc = "web"
    /\ web = NoWeb
    /\ web' = [op |-> "stage3_prompt",
               stage1_results |-> req_stage1,
               stage2_results |-> req_stage2,
               prompt |-> build_chairman_prompt(UserQuery, req_stage1, req_stage2, previous_messages),
               label_to_model |-> <<>>]
    /\ WebUnchanged

\* the response has been sent; the server waits for the next request
WebReturn ==
    /\ pc = "web"
    /\ web # NoWeb
    /\ web' = NoWeb
    /\ WebUnchanged

NextWeb ==
    \/ WebReturn
    \/ \E s1 \in WebStage1Lists, ctx \in WebContexts : web_chatbot_stage2_prompt(s1, ctx)
    \/ \E s1 \in WebStage1Lists, s2 \in WebStage2Lists, ctx \in WebContexts :
          web_chatbot_stage3_prompt(s1, s2, ctx)

SpecWeb == InitWeb /\ [][NextWeb]_vars

----------------------------------------------------------------------------
(* The stage functions on their own: each step applies one function of     *)
(* council.py or scores.py to inputs drawn from bounded sets and records   *)
(* the call in web                                                         *)

FnModels == <<NameChatGPT, NameClaudeExt, NameGemini>>

\* what the provider may do with one query
FnOutcomes == {"ok", "error", "timeout"}
FnContents == { <<>>, <<"text">> }
FnReplies == { <<>>, <<Marker, "1.", "Response B", "2.", "Response A">> }

ParseAlphabet == { Marker, "1.", "2.", "Response A", "Response B1", "and" }
ParseTexts == SeqsUpTo(ParseAlphabet, MaxReplyLen)

AgentX == <<"Model", " ", "X">>
AgentY == <<"Model", " ", "Y">>
AgentZ == <<"Model", " ", "Z">>
Outsider == <<"Model", " ", "W">>

\* label-to-agent maps: one response per agent, and three rounds of one agent
MapSingle == << <<"Response A", AgentX>>, <<"Response B", AgentY>>, <<"Response C", AgentZ>> >>
MapRounds == << <<"Response A1", AgentX>>, <<"Response A2", AgentX>>,
                <<"Response A3", AgentX>>, <<"Response B1", AgentY>> >>
\* seven agents, one response each
MapSeven == [ i \in 1..7 |-> <<ResponseLabel(Letters[i]), <<"Model", " ", Letters[i]>>>> ]

MapLabels(map) == [ i \in 1..Len(map) |-> map[i][1] ]

\* the label lists a parse may hand on: labels of the map and a label it does
\* not hold, repeats included
PointsInputs ==
    { [list |-> l, map |-> MapSingle] :
        l \in SeqsUpTo(Range(MapLabels(MapSingle)) \cup {"Response H"}, MaxListLen) }
    \cup { [list |-> l, map |-> MapRounds] :
        l \in SeqsUpTo(Range(MapLabels(MapRounds)) \cup {"Response H"}, MaxListLen) }
    \cup { [list |-> l, map |-> MapSeven] :
        l \in { MapLabels(MapSeven), [ i \in 1..7 |-> MapLabels(MapSeven)[8 - i] ] } }

\* a reply that ends with the ranking list
RankText(list) ==
    <<"critique", Marker>>
    \o [ i \in 1..(2 * Len(list)) |->
           IF i % 2 = 1 THEN ToString((i + 1) \div 2) \o "." ELSE list[i \div 2] ]

\* lists without repeats over the labels of a map, up to n long
InjectiveLists(map, n) ==
    { l \in SeqsUpTo(Range(MapLabels(map)), n) :
        \A i, j \in 1..Len(l) : i # j => l[i] # l[j] }

RoundsLists == { <<"Response A1", "Response A2", "Response A3", "Response B1">>,
                 <<"Response B1", "Response A1", "Response A2", "Response A3">>,
                 <<"Response A1", "Response B1", "Response A2">>,
                 <<"Response B1">> }

\* lists in which a reviewer names a label more than once
RepeatLists == { <<"Response A", "Response B", "Response A">>,
                 <<"Response B", "Response B">>,
                 <<"Response C", "Response A">> }

AggregateInputs ==
    { [reviews |-> r, map |-> MapSingle] :
        r \in SeqsUpTo({ [model |-> AgentX, ranking |-> RankText(l)] :
                           l \in InjectiveLists(MapSingle, 3) }, MaxReviews) }
    \cup { [reviews |-> r, map |-> MapRounds] :
        r \in SeqsUpTo({ [model |-> AgentY, ranking |-> RankText(l)] : l \in RoundsLists },
                       MaxReviews) }
    \cup { [reviews |-> r, map |-> MapSingle] :
        r \in SeqsUpTo({ [model |-> Outsider, ranking |-> RankText(l)] : l \in RepeatLists }, 2) }

InitFn ==
    /\ config = FnModels
    /\ scores_file = NoFile
    /\ turn = 0
    /\ entry = "none"
    /\ pc = "fn"
    /\ q1 = [ i \in Agents |-> "idle" ]
    /\ order1 = <<>>
    /\ q2 = [ i \in Agents |-> [st |-> "idle", reply |-> <<>>] ]
    /\ qc = "idle"
    /\ stage1_results = <<>>
    /\ stage2_results = <<>>
    /\ label_to_model = <<>>
    /\ aggregate_rankings = <<>>
    /\ chairman_prompt = NoPrompt
    /\ ranking_prompt = NoPrompt
    /\ stage3_result = NoResult
    /\ raised = FALSE
    /\ nUpdates = 0
    /\ nReads = 0
    /\ nWrites = 0
    /\ updErr = NoErr
    /\ scores_before = NoFile
    /\ web = NoWeb
    /\ InitConversations

\* stage1_collect_responses on the provider's results for the council
CollectStage1(outcomes, contents) ==
    /\ pc = "fn"
    /\ web = NoWeb
    /\ LET results == stage1_collect_responses(query_models_parallel(config, outcomes, contents))
       IN web' = [op |-> "stage1", outcomes |-> outcomes, contents |-> contents,
                  stage1_results |-> results,
                  label_to_model |-> LabelToModel(Stage2Labels(results), results)]
    /\ WebUnchanged

\* the result formatting of stage2_collect_rankings on the provider's results
CollectStage2(outcomes, contents) ==
    /\ pc = "fn"
    /\ web = NoWeb
    /\ web' = [op |-> "stage2", outcomes |-> outcomes, contents |-> contents,
               stage2_results |-> FormatStage2(query_models_parallel(config, outcomes, contents))]
    /\ WebUnchanged

\* parse_ranking_from_text on one reply
ParseReply(text) ==
    /\ pc = "fn"
    /\ web = NoWeb
    /\ web' = [op |-> "parse", text |-> text, parsed |-> parse_ranking_from_text(text)]
    /\ WebUnchanged

\* _calculate_points_for_review on one parsed list
PointsForReview(list, reviewer, map) ==
    /\ pc = "fn"
    /\ web = NoWeb
    /\ web' = [op |-> "points", list |-> list, reviewer |-> reviewer, map |-> map,
               points |-> calculate_points_for_review(list, reviewer, map)]
    /\ WebUnchanged

\* calculate_aggregate_rankings on a list of reviews
AggregateRankings(reviews, map) ==
    /\ pc = "fn"
    /\ web = NoWeb
    /\ web' = [op |-> "aggregate", map |-> map,
               reviews |-> [ k \in 1..Len(reviews) |->
                               [model |-> reviews[k].model, ranking |-> reviews[k].ranking,
                                parsed_ranking |-> parse_ranking_from_text(reviews[k].ranking)] ],
               aggregate_rankings |-> calculate_aggregate_rankings(reviews, map)]
    /\ WebUnchanged

\* raw agent names: optional leading whitespace, a brand in one of its
\* spellings, thinking suffixes in their spellings, optional trailing whitespace
BrandSpellings == { <<"Model">>, <<"Chat", "GPT">>, <<"Chat", " ", "GPT">>, <<"chat", " ", "gpt">> }

SuffixSpellings ==
    { <<" ", "Thinking">>, <<" ", "thinking">>, <<" ", "(", "Thinking", ")">>,
      <<" ", "[", "Thinking", "]">>, <<" ", "(Ext)", " ", "Thinking">>,
      <<" ", "[Ext.", " ", "Thinking", "]">> }

RECURSIVE SuffixRuns(_)
SuffixRuns(n) ==
    IF n = 0 THEN { <<>> }
    ELSE SuffixRuns(n - 1) \cup { r \o sp : r \in SuffixRuns(n - 1), sp \in SuffixSpellings }

RawNames ==
    { lead \o brand \o run \o trail :
        lead \in { <<>>, <<" ">> }, brand \in BrandSpellings,
        run \in SuffixRuns(MaxSuffixes), trail \in { <<>>, <<" ">> } }

\* clean_model_name on one raw name
CleanName(name) ==
    /\ pc = "fn"
    /\ web = NoWeb
    /\ web' = [op |-> "clean", name |-> name, cleaned |-> clean_model_name(name)]
    /\ WebUnchanged

\* the reviews of the given label lists
ReviewsOf(lists) ==
    [ k \in 1..Len(lists) |-> [model |-> Outsider, ranking |-> RankText(lists[k])] ]

\* the list with its i-th label moved down to place j
MovedDown(list, i, j) ==
    SubSeq(list, 1, i - 1) \o SubSeq(list, i + 1, j) \o <<list[i]>> \o SubSeq(list, j + 1, Len(list))

\* one reviewer's list with a label and a lower place for it, the other reviews
\* of the round, and the table loaded
MoveInputs ==
    { [list |-> MapLabels(map), map |-> map, i |-> i, j |-> j, others |-> others, loaded |-> loaded] :
        map \in {MapSeven, MapRounds}, i \in 1..7, j \in 1..7,
        others \in {<<>>, << <<"Response A">> >>, << <<"Response F">> >>, << <<"Response A2">> >>},
        loaded \in {<<>>, << <<MapSeven[6][2], <<10, 1>>>>, <<AgentX, <<10, 1>>>> >>} }

\* update_scores on a round and on the same round with one reviewer's label
\* moved down: round_stats entry and stored score of the label's agent in both
MoveLower(in) ==
    /\ pc = "fn"
    /\ web = NoWeb
    /\ in.i < in.j /\ in.j <= Len(in.list)
    /\ LET agent == DictGet(in.map, in.list[in.i])
           moved == MovedDown(in.list, in.i, in.j)
           before == ReviewsOf(<<in.list>> \o in.others)
           after == ReviewsOf(<<moved>> \o in.others)
           stats(reviews) == DictGet(RoundStats(reviews, in.map, Len(reviews)), agent)
           score(reviews) ==
               LET table == UpdatedTable(reviews, in.map, in.loaded)
               IN IF DictHas(table, clean_model_name(agent))
                  THEN DictGet(table, clean_model_name(agent)) ELSE <<-1, 1>>
       IN web' = [op |-> "move", agent |-> agent, list |-> in.list, moved |-> moved,
                  others |-> in.others,
                  awarded |-> DictHas(calculate_points_for_review(moved, Outsider, in.map), agent),
                  stats_before |-> stats(before), stats_after |-> stats(after),
                  score_before |-> score(before), score_after |-> score(after)]
    /\ WebUnchanged

\* the call has returned
FnReturn ==
    /\ pc = "fn"
    /\ web # NoWeb
    /\ web' = NoWeb
    /\ WebUnchanged

\* the inputs a call may be made with: none while a call is being answered
WhenIdle(S) == IF web = NoWeb THEN S ELSE {}

NextFn ==
    \/ FnReturn
    \/ \E outcomes \in WhenIdle([1..Len(FnModels) -> FnOutcomes]),
          contents \in [1..Len(FnModels) -> FnContents] : CollectStage1(outcomes, contents)
    \/ \E outcomes \in WhenIdle([1..Len(FnModels) -> FnOutcomes]),
          contents \in [1..Len(FnModels) -> FnReplies] : CollectStage2(outcomes, contents)
    \/ \E text \in WhenIdle(ParseTexts) : ParseReply(text)
    \/ \E in \in WhenIdle(PointsInputs), reviewer \in {AgentX, AgentY, Outsider} :
          PointsForReview(in.list, reviewer, in.map)
    \/ \E in \in WhenIdle(AggregateInputs) : AggregateRankings(in.reviews, in.map)
    \/ \E name \in WhenIdle(RawNames) : CleanName(name)
    \/ \E in \in WhenIdle(MoveInputs) : MoveLower(in)

SpecFn == InitFn /\ [][NextFn]_vars

----------------------------------------------------------------------------
(* The score store on its own: update_scores called as the tests call it,  *)
(* with a label-to-agent map of raw names, and through the endpoint        *)
(* POST /api/web-chatbot/process-rankings, which cleans the names first    *)

RawChatThinking == <<"Chat", "GPT", " ", "Thinking">>
RawChatSpaced == <<"chat", " ", "gpt">>
CanonChat == <<"Chat", "GPT">>

MapVariantT == << <<"Response A", RawChatThinking>> >>
MapVariantS == << <<"Response A", RawChatSpaced>>, <<"Response B", AgentY>> >>
MapTwoRaw == << <<"Response A", RawChatThinking>>, <<"Response B", RawChatSpaced>> >>

StoreLists ==
    { <<"Response B", "Response C", "Response A">>, <<"Response A">>, <<>> }

StoreInputs ==
    { [reviews |-> ReviewsOf(ls), map |-> MapSingle] : ls \in SeqsUpTo(StoreLists, 2) }
    \cup { [reviews |-> ReviewsOf(<< <<"Response A1", "Response A2", "Response A3",
                                       "Response B1">> >>), map |-> MapRounds],
           [reviews |-> ReviewsOf(<< <<"Response B1", "Response A1">>,
                                     <<"Response A2">> >>), map |-> MapRounds],
           [reviews |-> ReviewsOf(<< <<"Response A">> >>), map |-> MapVariantT],
           [reviews |-> ReviewsOf(<< <<"Response B", "Response A">> >>), map |-> MapVariantS],
           [reviews |-> ReviewsOf(<< <<"Response A", "Response B">> >>), map |-> MapTwoRaw],
           [reviews |-> ReviewsOf(<< MapLabels(MapSeven) >>), map |-> MapSeven],
           [reviews |-> ReviewsOf(<< MapLabels(MapSeven), <<"Response G">> >>), map |-> MapSeven] }

StoreFiles == { NoFile,
                [state |-> "ok", table |-> << <<AgentX, <<500, 1>>>>, <<AgentY, <<25, 1>>>>,
                                              <<AgentZ, <<10, 1>>>> >>] }

\* the reviews with the parse of each
Parsed(reviews) ==
    [ k \in 1..Len(reviews) |->
        [model |-> reviews[k].model, ranking |-> reviews[k].ranking,
         parsed_ranking |-> parse_ranking_from_text(reviews[k].ranking)] ]

\* main.py line 358: {label: clean_model_name(model) for label, model in ...items()}
CleanMap(map) == [ i \in 1..Len(map) |-> <<map[i][1], clean_model_name(map[i][2])>> ]

InitStore ==
    /\ config = FnModels
    /\ scores_file \in StoreFiles
    /\ turn = 0
    /\ entry = "none"
    /\ pc = "store"
    /\ q1 = [ i \in Agents |-> "idle" ]
    /\ order1 = <<>>
    /\ q2 = [ i \in Agents |-> [st |-> "idle", reply |-> <<>>] ]
    /\ qc = "idle"
    /\ stage1_results = <<>>
    /\ stage2_results = <<>>
    /\ label_to_model = <<>>
    /\ aggregate_rankings = <<>>
    /\ chairman_prompt = NoPrompt
    /\ ranking_prompt = NoPrompt
    /\ stage3_result = NoResult
    /\ raised = FALSE
    /\ nUpdates = 0
    /\ nReads = 0
    /\ nWrites = 0
    /\ updErr = NoErr
    /\ scores_before = NoFile
    /\ web = NoWeb
    /\ InitConversations

\* one call of update_scores; the read of the score file may fail
StoreUpdate(reviews, map, rd_error) ==
    /\ pc = "store"
    /\ turn < MaxUpdates
    /\ LET r == update_scores(scores_file, reviews, map, rd_error, "ok")
       IN /\ scores_file' = r.file
          /\ raised' = r.exc
    /\ scores_before' = scores_file
    /\ updErr' = [rd |-> rd_error, wr |-> "ok"]
    /\ stage2_results' = Parsed(reviews)
    /\ label_to_model' = map
    /\ aggregate_rankings' = <<>>
    /\ entry' = "update_scores"
    /\ turn' = turn + 1
    /\ UNCHANGED <<config, pc, q1, order1, q2, qc, stage1_results, chairman_prompt,
                   ranking_prompt, stage3_result, nUpdates, nReads, nWrites, web>>
    /\ UNCHANGED ConvVars

\* POST /api/web-chatbot/process-rankings
web_chatbot_process_rankings(req_stage2, req_label_to_model, rd_error) ==
    /\ pc = "store"
    /\ turn < MaxUpdates
    /\ LET processed_results == Parsed(req_stage2)
           clean_label_to_model == CleanMap(req_label_to_model)
           r == update_scores(scores_file, processed_results, clean_label_to_model, rd_error, "ok")
       IN /\ stage2_results' = processed_results
          /\ label_to_model' = clean_label_to_model
          /\ aggregate_rankings' = calculate_aggregate_rankings(processed_results,
                                                                clean_label_to_model)
          /\ scores_file' = r.file
          /\ raised' = r.exc
    /\ scores_before' = scores_file
    /\ updErr' = [rd |-> rd_error, wr |-> "ok"]
    /\ entry' = "process_rankings"
    /\ turn' = turn + 1
    /\ UNCHANGED <<config, pc, q1, order1, q2, qc, stage1_results, chairman_prompt,
                   ranking_prompt, stage3_result, nUpdates, nReads, nWrites, web>>
    /\ UNCHANGED ConvVars

NextStore ==
    \/ \E in \in StoreInputs, rd_error \in BOOLEAN : StoreUpdate(in.reviews, in.map, rd_error)
    \/ \E in \in StoreInputs, rd_error \in BOOLEAN :
          web_chatbot_process_rankings(in.reviews, in.map, rd_error)

SpecStore == InitStore /\ [][NextStore]_vars

----------------------------------------------------------------------------
(* The conversation endpoints of main.py over the conversation files.  A   *)
(* handler runs without interruption from one await to the next; requests *)
(* interleave at the awaits.                                                *)

GeneratedTitles == { "Generated Title", "New Conversation" }
RenameTitles == { "My Super Cool Council", "Another Title" }

ConvUnchanged ==
    UNCHANGED <<config, scores_file, turn, entry, pc, q1, order1, q2, qc, stage1_results,
                stage2_results, label_to_model, aggregate_rankings, chairman_prompt,
                ranking_prompt, stage3_result, raised, nUpdates, nReads, nWrites, updErr,
                scores_before, web>>

InitConv ==
    /\ config = FnModels
    /\ scores_file = NoFile
    /\ turn = 0
    /\ entry = "none"
    /\ pc = "conv"
    /\ q1 = [ i \in Agents |-> "idle" ]
    /\ order1 = <<>>
    /\ q2 = [ i \in Agents |-> [st |-> "idle", reply |-> <<>>] ]
    /\ qc = "idle"
    /\ stage1_results = <<>>
    /\ stage2_results = <<>>
    /\ label_to_model = <<>>
    /\ aggregate_rankings = <<>>
    /\ chairman_prompt = NoPrompt
    /\ ranking_prompt = NoPrompt
    /\ stage3_result = NoResult
    /\ raised = FALSE
    /\ nUpdates = 0
    /\ nReads = 0
    /\ nWrites = 0
    /\ updErr = NoErr
    /\ scores_before = NoFile
    /\ web = NoWeb
    /\ InitConversations

\* POST /api/conversations: a fresh id (uuid4)
create_conversation ==
    /\ pc = "conv"
    /\ \E id \in ConvIds :
          /\ conversations[id].status = "unused"
          /\ \A j \in 1..(id - 1) : conversations[j].status # "unused"
          /\ conversations' = storage_create_conversation(conversations, id)
          /\ http_response' = [op |-> "create", id |-> id, status |-> 200,
                               title |-> "New Conversation"]
    /\ UNCHANGED <<handlers, renamed>>
    /\ ConvUnchanged

\* DELETE /api/conversations/{conversation_id}
delete_conversation(id) ==
    /\ pc = "conv"
    /\ LET r == storage_delete_conversation(conversations, id)
       IN /\ conversations' = r.convs
          /\ http_response' = [op |-> "delete", id |-> id,
                               status |-> IF r.ok THEN 200 ELSE 404, title |-> ""]
    /\ UNCHANGED <<handlers, renamed>>
    /\ ConvUnchanged

\* PATCH /api/conversations/{conversation_id}/title
update_conversation_title(id, title) ==
    /\ pc = "conv"
    /\ LET r == storage_update_conversation_title(conversations, id, title)
       IN /\ conversations' = r.convs
          /\ http_response' = [op |-> "rename", id |-> id,
                               status |-> IF r.exc THEN 404 ELSE 200,
                               title |-> IF r.exc THEN "" ELSE title]
          /\ renamed' = IF r.exc THEN renamed ELSE [renamed EXCEPT ![id] = title]
    /\ UNCHANGED handlers
    /\ ConvUnchanged

\* GET /api/conversations/{conversation_id}
get_conversation(id) ==
    /\ pc = "conv"
    /\ http_response' = IF Exists(conversations, id)
                        THEN [op |-> "get", id |-> id, status |-> 200,
                              title |-> conversations[id].title]
                        ELSE [op |-> "get", id |-> id, status |-> 404, title |-> ""]
    /\ UNCHANGED <<conversations, handlers, renamed>>
    /\ ConvUnchanged

\* GET /api/conversations
list_conversations ==
    /\ pc = "conv"
    /\ http_response' = [op |-> "list", id |-> 0, status |-> 200,
                         listing |-> storage_list_conversations(conversations)]
    /\ UNCHANGED <<conversations, handlers, renamed>>
    /\ ConvUnchanged

\* POST /api/conversations/{conversation_id}/message, up to its first await:
\* generate_conversation_title for a first message, run_full_council otherwise
send_message(h, id) ==
    /\ pc = "conv"
    /\ handlers[h] = NoHandler
    /\ \A j \in 1..(h - 1) : handlers[j] # NoHandler
    /\ IF ~Exists(conversations, id)
       THEN /\ http_response' = [op |-> "message", id |-> id, status |-> 404, title |-> ""]
            /\ UNCHANGED <<conversations, handlers>>
       ELSE /\ conversations[id].messages < MaxMessages
            /\ LET is_first_message == conversations[id].messages = 0
               IN handlers' = [handlers EXCEPT ![h] =
                                 [pc |-> IF is_first_message THEN "title" ELSE "council",
                                  id |-> id, first |-> is_first_message]]
            /\ conversations' = storage_add_message(conversations, id).convs
            /\ UNCHANGED http_response
    /\ UNCHANGED renamed
    /\ ConvUnchanged

\* send_message: the title has been generated and is stored
send_message_title(h, title) ==
    /\ pc = "conv"
    /\ handlers[h].pc = "title"
    /\ LET r == storage_update_conversation_title(conversations, handlers[h].id, title)
       IN /\ conversations' = r.convs
          /\ IF r.exc
             THEN /\ handlers' = [handlers EXCEPT ![h] = NoHandler]
                  /\ http_response' = [op |-> "message", id |-> handlers[h].id,
                                       status |-> 500, title |-> ""]
             ELSE /\ handlers' = [handlers EXCEPT ![h].pc = "council"]
                  /\ UNCHANGED http_response
    /\ UNCHANGED renamed
    /\ ConvUnchanged

\* send_message at the await of run_full_council line 994: Stage1 has returned.
\* With no answer run_full_council returns at once (lines 997-998, no Update)
\* and the assistant message is stored; otherwise Stage2 is awaited
send_message_stage1(h, answered) ==
    /\ pc = "conv"
    /\ handlers[h].pc = "council"
    /\ IF answered
       THEN /\ handlers' = [handlers EXCEPT ![h].pc = "stage2"]
            /\ UNCHANGED <<conversations, http_response>>
       ELSE /\ LET r == storage_add_message(conversations, handlers[h].id)
               IN /\ conversations' = r.convs
                  /\ http_response' = [op |-> "message", id |-> handlers[h].id,
                                       status |-> IF r.exc THEN 500 ELSE 200, title |-> ""]
            /\ handlers' = [handlers EXCEPT ![h] = NoHandler]
    /\ UNCHANGED renamed
    /\ ConvUnchanged

\* the Stage2 results and label-to-agent map a message request hands to update_scores
CouncilOutcomes ==
    { [reviews |-> ReviewsOf(ls), map |-> MapSingle] :
        ls \in { << <<"Response B", "Response A">> >>, << <<"Response A">> >> } }

\* send_message at the await of line 1001: Stage2 has returned; the leaderboard
\* is computed, update_scores runs (line 1007) and Stage3 is awaited (line 1010)
send_message_stage2(h, council) ==
    /\ pc = "conv"
    /\ handlers[h].pc = "stage2"
    /\ scores_file' = update_scores(scores_file, council.reviews, council.map, FALSE, "ok").file
    /\ nUpdates' = nUpdates + 1
    /\ nReads' = nReads + 1
    /\ nWrites' = nWrites + 1
    /\ handlers' = [handlers EXCEPT ![h].pc = "stage3"]
    /\ UNCHANGED <<conversations, http_response, renamed>>
    /\ UNCHANGED <<config, turn, entry, pc, q1, order1, q2, qc, stage1_results,
                   stage2_results, label_to_model, aggregate_rankings, chairman_prompt,
                   ranking_prompt, stage3_result, raised, updErr, scores_before, web>>

\* send_message: Stage3 has returned, run_full_council returns and the
\* assistant message is stored
send_message_return(h) ==
    /\ pc = "conv"
    /\ handlers[h].pc = "stage3"
    /\ LET r == storage_add_message(conversations, handlers[h].id)
       IN /\ conversations' = r.convs
          /\ http_response' = [op |-> "message", id |-> handlers[h].id,
                               status |-> IF r.exc THEN 500 ELSE 200, title |-> ""]
    /\ handlers' = [handlers EXCEPT ![h] = NoHandler]
    /\ UNCHANGED renamed
    /\ ConvUnchanged

\* POST /api/conversations/{conversation_id}/message/stream: the handler checks
\* that the conversation exists, notes whether it has no message yet and returns
\* the StreamingResponse; event_generator runs when the body is iterated
send_message_stream(h, id) ==
    /\ pc = "conv"
    /\ handlers[h] = NoHandler
    /\ \A j \in 1..(h - 1) : handlers[j] # NoHandler
    /\ IF ~Exists(conversations, id)
       THEN /\ http_response' = [op |-> "stream", id |-> id, status |-> 404, title |-> ""]
            /\ UNCHANGED handlers
       ELSE /\ conversations[id].messages < MaxMessages
            /\ handlers' = [handlers EXCEPT ![h] =
                              [pc |-> "stream_body", id |-> id,
                               first |-> conversations[id].messages = 0]]
            /\ http_response' = [op |-> "stream", id |-> id, status |-> 200, title |-> ""]
    /\ UNCHANGED <<conversations, renamed>>
    /\ ConvUnchanged

\* event_generator, lines 229-239 and 272-274: the user message is stored
\* (ValueError when the conversation is gone), the title task of a first
\* message is started, and the first yield raises NameError, main.py not
\* importing json; the except branch raises it again: the stream ends without
\* an event, no stage has run and the title of the task is never stored
event_generator(h) ==
    /\ pc = "conv"
    /\ handlers[h].pc = "stream_body"
    /\ conversations' = storage_add_message(conversations, handlers[h].id).convs
    /\ http_response' = [op |-> "stream", id |-> handlers[h].id, status |-> 200,
                         title |-> "", event |-> "NameError"]
    /\ handlers' = [handlers EXCEPT ![h] = NoHandler]
    /\ UNCHANGED renamed
    /\ ConvUnchanged

\* POST /api/conversations/{conversation_id}/message/web-chatbot: the call
\* storage.add_user_message(..., metadata=user_metadata) raises TypeError, the
\* function of storage.py taking no such argument; nothing is stored and the
\* title task of line 440 is never created
save_web_chatbot_message(id) ==
    /\ pc = "conv"
    /\ http_response' = [op |-> "web-chatbot", id |-> id,
                         status |-> IF Exists(conversations, id) THEN 500 ELSE 404,
                         title |-> ""]
    /\ UNCHANGED <<conversations, handlers, renamed>>
    /\ ConvUnchanged

NextConv ==
    \/ create_conversation
    \/ \E id \in ConvIds : delete_conversation(id)
    \/ \E id \in ConvIds, title \in RenameTitles : update_conversation_title(id, title)
    \/ \E id \in ConvIds : get_conversation(id)
    \/ list_conversations
    \/ \E h \in 1..MaxInFlight, id \in ConvIds : send_message(h, id)
    \/ \E h \in 1..MaxInFlight, title \in GeneratedTitles : send_message_title(h, title)
    \/ \E h \in 1..MaxInFlight, answered \in BOOLEAN : send_message_stage1(h, answered)
    \/ \E h \in 1..MaxInFlight, council \in CouncilOutcomes : send_message_stage2(h, council)
    \/ \E h \in 1..MaxInFlight : send_message_return(h)
    \/ \E h \in 1..MaxInFlight, id \in ConvIds : send_message_stream(h, id)
    \/ \E h \in 1..MaxInFlight : event_generator(h)
    \/ \E id \in ConvIds : save_web_chatbot_message(id)

SpecConv == InitConv /\ [][NextConv]_vars

----------------------------------------------------------------------------
(* Overlapping turns in one server process.  Every handler is a coroutine  *)
(* of the one event loop: it runs without interruption from one await to   *)
(* the next, and update_scores, which awaits nothing, runs in one piece.   *)

OverlapInputs == { in \in StoreInputs : in.map = MapSingle /\ Len(in.reviews) = 1 }

\* scores.py line 79: the table an Update works on is loaded inside
\* update_scores, at the time of the Update (seen: the file when the turn began)
LoadedAt_turn_start(current, seen) == seen

LoadedAt(current, seen) == current

OverlapUnchanged ==
    UNCHANGED <<config, turn, entry, pc, q1, order1, q2, qc, stage1_results, stage2_results,
                label_to_model, aggregate_rankings, chairman_prompt, ranking_prompt,
                stage3_result, raised, nReads, nWrites, updErr, scores_before, web,
                conversations, http_response, renamed>>

InitOverlap ==
    /\ config = FnModels
    /\ scores_file = NoFile
    /\ turn = 0
    /\ entry = "none"
    /\ pc = "overlap"
    /\ q1 = [ i \in Agents |-> "idle" ]
    /\ order1 = <<>>
    /\ q2 = [ i \in Agents |-> [st |-> "idle", reply |-> <<>>] ]
    /\ qc = "idle"
    /\ stage1_results = <<>>
    /\ stage2_results = <<>>
    /\ label_to_model = <<>>
    /\ aggregate_rankings = <<>>
    /\ chairman_prompt = NoPrompt
    /\ ranking_prompt = NoPrompt
    /\ stage3_result = NoResult
    /\ raised = FALSE
    /\ nUpdates = 0
    /\ nReads = 0
    /\ nWrites = 0
    /\ updErr = NoErr
    /\ scores_before = NoFile
    /\ web = NoWeb
    /\ InitConversations

\* run_full_council is entered and awaits stage1_collect_responses
run_full_council_enter(h) ==
    /\ pc = "overlap"
    /\ handlers[h].pc = "idle"
    /\ handlers' = [handlers EXCEPT ![h] =
                      [pc |-> "stage1", id |-> 0, first |-> FALSE, seen |-> scores_file,
                       seq |-> 0, input |-> <<>>]]
    /\ UNCHANGED <<scores_file, nUpdates>>
    /\ OverlapUnchanged

\* Stage1 has returned.  answered: the turn awaits stage2_collect_rankings.
\* Not answered (lines 997-998): no model responded and the turn returns its
\* error result at once, with no Stage2, no Update and no Stage3
run_full_council_stage2(h, answered) ==
    /\ pc = "overlap"
    /\ handlers[h].pc = "stage1"
    /\ handlers' = [handlers EXCEPT ![h].pc = IF answered THEN "stage2" ELSE "done"]
    /\ UNCHANGED <<scores_file, nUpdates>>
    /\ OverlapUnchanged

\* Stage2 has returned; update_scores runs and the turn awaits stage3_synthesize_final
run_full_council_update(h, in) ==
    /\ pc = "overlap"
    /\ handlers[h].pc = "stage2"
    /\ scores_file' = update_scores(LoadedAt(scores_file, handlers[h].seen),
                                    in.reviews, in.map, FALSE, "ok").file
    /\ nUpdates' = nUpdates + 1
    /\ handlers' = [handlers EXCEPT ![h].pc = "stage3", ![h].seq = nUpdates + 1,
                                     ![h].input = in]
    /\ OverlapUnchanged

\* Stage3 has returned and the turn ends
run_full_council_return(h) ==
    /\ pc = "overlap"
    /\ handlers[h].pc = "stage3"
    /\ handlers' = [handlers EXCEPT ![h].pc = "done"]
    /\ UNCHANGED <<scores_file, nUpdates>>
    /\ OverlapUnchanged

\* POST /api/web-chatbot/process-rankings: a handler without an await
process_rankings_request(h, in) ==
    /\ pc = "overlap"
    /\ handlers[h].pc = "idle"
    /\ scores_file' = update_scores(LoadedAt(scores_file, scores_file),
                                    Parsed(in.reviews), CleanMap(in.map), FALSE, "ok").file
    /\ nUpdates' = nUpdates + 1
    /\ handlers' = [handlers EXCEPT ![h] =
                      [pc |-> "done", id |-> 0, first |-> FALSE, seen |-> scores_file,
                       seq |-> nUpdates + 1,
                       input |-> [reviews |-> Parsed(in.reviews), map |-> CleanMap(in.map)]]]
    /\ OverlapUnchanged

NextOverlap ==
    \/ \E h \in 1..MaxInFlight : run_full_council_enter(h)
    \/ \E h \in 1..MaxInFlight, answered \in BOOLEAN : run_full_council_stage2(h, answered)
    \/ \E h \in 1..MaxInFlight, in \in OverlapInputs : run_full_council_update(h, in)
    \/ \E h \in 1..MaxInFlight : run_full_council_return(h)
    \/ \E h \in 1..MaxInFlight, in \in OverlapInputs : process_rankings_request(h, in)

SpecOverlap == InitOverlap /\ [][NextOverlap]_vars

----------------------------------------------------------------------------
(* Browser automation: every run of an automation script is a subprocess   *)
(* started and awaited under the asyncio.Lock of its provider.  A request  *)
(* is a coroutine of the one event loop; a subprocess ends on its own      *)
(* time, and a kill is a signal sent, not a process ended.                 *)

Providers == {"ai_studio", "chatgpt", "claude"}

\* the calls that start a subprocess: run_<provider>_automation for the three
\* providers, run_interactive_login for the three, get_ai_studio_models
AutomationCalls ==
    { [kind |-> k, provider |-> p] : k \in {"prompt", "login"}, p \in Providers }
    \cup { [kind |-> "models", provider |-> "ai_studio"] }

\* council.py lines 22-24: the lock of a provider is held by the request that
\* is inside its 'async with' block
Locked(provider) ==
    \E h \in 1..MaxInFlight :
        /\ handlers[h].pc \in {"locked", "communicate"}
        /\ handlers[h].provider = provider

LockUnchanged ==
    UNCHANGED <<config, scores_file, turn, entry, pc, q1, order1, q2, qc, stage1_results,
                stage2_results, label_to_model, aggregate_rankings, chairman_prompt,
                ranking_prompt, stage3_result, raised, nUpdates, nReads, nWrites, updErr,
                scores_before, web, conversations, http_response, renamed>>

InitLock ==
    /\ config = FnModels
    /\ scores_file = NoFile
    /\ turn = 0
    /\ entry = "none"
    /\ pc = "lock"
    /\ q1 = [ i \in Agents |-> "idle" ]
    /\ order1 = <<>>
    /\ q2 = [ i \in Agents |-> [st |-> "idle", reply |-> <<>>] ]
    /\ qc = "idle"
    /\ stage1_results = <<>>
    /\ stage2_results = <<>>
    /\ label_to_model = <<>>
    /\ aggregate_rankings = <<>>
    /\ chairman_prompt = NoPrompt
    /\ ranking_prompt = NoPrompt
    /\ stage3_result = NoResult
    /\ raised = FALSE
    /\ nUpdates = 0
    /\ nReads = 0
    /\ nWrites = 0
    /\ updErr = NoErr
    /\ scores_before = NoFile
    /\ web = NoWeb
    /\ InitConversations

\* a request enters one of the calls and reaches its 'async with lock'
automation_call(h, call) ==
    /\ pc = "lock"
    /\ handlers[h].pc = "idle"
    /\ handlers' = [handlers EXCEPT ![h] =
                      [pc |-> "waiting", id |-> 0, first |-> FALSE, kind |-> call.kind,
                       provider |-> call.provider, process |-> "none"]]
    /\ LockUnchanged

\* async with lock: entered when no request holds the lock of the provider
lock_acquire(h) ==
    /\ pc = "lock"
    /\ handlers[h].pc = "waiting"
    /\ ~Locked(handlers[h].provider)
    /\ handlers' = [handlers EXCEPT ![h].pc = "locked"]
    /\ LockUnchanged

\* process = await asyncio.create_subprocess_exec(...) inside the try block of
\* the 'async with' block.  started: the subprocess runs and the request awaits
\* process.communicate().  Not started: the call raises (the interpreter or the
\* script cannot be executed), 'except Exception' returns the error result and
\* the request leaves the 'async with' block with no subprocess
create_subprocess_exec(h, started) ==
    /\ pc = "lock"
    /\ handlers[h].pc = "locked"
    /\ handlers' = IF started
                   THEN [handlers EXCEPT ![h].pc = "communicate", ![h].process = "running"]
                   ELSE [handlers EXCEPT ![h].pc = "done"]
    /\ LockUnchanged

\* the subprocess ends: the script is done, or the kill signal has taken effect
process_exit(h) ==
    /\ pc = "lock"
    /\ handlers[h].pc # "idle"
    /\ handlers[h].process \in {"running", "killed"}
    /\ handlers' = [handlers EXCEPT ![h].process = "ended"]
    /\ LockUnchanged

\* process.communicate() returns once the subprocess has ended; the call
\* returns and leaves the 'async with' block
communicate_returns(h) ==
    /\ pc = "lock"
    /\ handlers[h].pc = "communicate"
    /\ handlers[h].process = "ended"
    /\ handlers' = [handlers EXCEPT ![h].pc = "done"]
    /\ LockUnchanged

\* run_interactive_login, lines 146-150: wait_for times out after 320 s;
\* process.kill() sends the signal and the call returns at once, leaving the
\* 'async with' block
login_timeout(h) ==
    /\ pc = "lock"
    /\ handlers[h].pc = "communicate"
    /\ handlers[h].kind = "login"
    /\ handlers[h].process = "running"
    /\ handlers' = [handlers EXCEPT ![h].pc = "done", ![h].process = "killed"]
    /\ LockUnchanged

NextLock ==
    \/ \E h \in 1..MaxInFlight, call \in AutomationCalls : automation_call(h, call)
    \/ \E h \in 1..MaxInFlight : lock_acquire(h)
    \/ \E h \in 1..MaxInFlight, started \in BOOLEAN : create_subprocess_exec(h, started)
    \/ \E h \in 1..MaxInFlight : process_exit(h)
    \/ \E h \in 1..MaxInFlight : communicate_returns(h)
    \/ \E h \in 1..MaxInFlight : login_timeout(h)

SpecLock == InitLock /\ [][NextLock]_vars

----------------------------------------------------------------------------
(* Properties *)

OkAgents1 == { i \in Agents : q1[i] = "ok" }
OkAgents2 == { i \in Agents : q2[i].st = "ok" }
Settled1 == \A i \in Agents : q1[i] \in {"ok", "fail"}
Settled2 == \A i \in Agents : q2[i].st \in {"ok", "fail"}
InTurn == entry = "full"

\* steps left to a turn: the position of its coroutine, then the queries in flight
TurnMeasure ==
    10 * (CASE pc = "stage1" -> 6 [] pc = "stage1_done" -> 5 [] pc = "stage2" -> 4
            [] pc = "stage2_done" -> 3 [] pc = "updated" -> 2 [] pc = "stage3" -> 1
            [] OTHER -> 0)
    + Cardinality({ i \in Agents : q1[i] = "inflight" })
    + Cardinality({ i \in Agents : q2[i].st = "inflight" })
    + (IF qc = "inflight" THEN 1 ELSE 0)

\* a turn that has not returned waits for a query in flight or can resume
TurnNotStuck ==
    CASE pc = "stage1" -> (\E i \in Agents : q1[i] = "inflight") \/ Settled1
      [] pc = "stage2" -> (\E i \in Agents : q2[i].st = "inflight") \/ Settled2
      [] pc = "stage3" -> qc = "inflight"
      [] OTHER -> pc \in {"stage1_done", "stage2_done", "updated", "done"}

\* the result a turn of run_full_council hands back carries response text,
\* the explicit error text when no agent answered or the chairman failed
ReturnsStage3Text ==
    /\ entry = "full" => (~raised /\ TurnNotStuck)
    /\ (entry = "full" /\ pc = "done") =>
          /\ stage3_result.response # <<>>
          /\ OkAgents1 = {} => stage3_result.response = <<"Error: No models available.">>
          /\ qc = "fail" => stage3_result.response = <<"Error: Unable to generate final synthesis.">>
          /\ qc = "ok" => stage3_result.response = Synthesis

\* C1: every turn of run_full_council, whatever the provider outcomes,
\* terminates (it is never stuck and each of its steps brings it closer to
\* its return) by returning a Stage3 result that carries response text (the
\* explicit error text when no agent answered or the chairman failed), and no
\* exception leaves the pipeline
Prop_C1_TurnReturnsStage3Text ==
    /\ []ReturnsStage3Text
    /\ [][(entry = "full" /\ pc # "done") => TurnMeasure' < TurnMeasure]_vars

Witness_C1 ==
    /\ entry = "full" /\ pc = "done"
    /\ OkAgents1 # {} /\ OkAgents2 = {}
    /\ qc = "fail"
    /\ stage3_result.response = <<"Error: Unable to generate final synthesis.">>

\* C2: when no agent answered Stage1, run_full_council returns the
\* 'no models available' result straight after Stage1: no Stage2 query, no
\* chairman query, no read or write of the score file
Inv_C2_NoAnswerShortCircuit ==
    (entry = "full" /\ Settled1 /\ OkAgents1 = {}) =>
        /\ pc \in {"stage1", "stage1_done", "done"}
        /\ \A i \in Agents : q2[i].st = "idle"
        /\ qc = "idle"
        /\ ranking_prompt = NoPrompt /\ chairman_prompt = NoPrompt
        /\ nUpdates = 0 /\ nReads = 0 /\ nWrites = 0
        /\ pc = "done" => (stage3_result = NoModelsResult /\ stage1_results = <<>>
                           /\ stage2_results = <<>>)

Witness_C2 ==
    /\ entry = "full" /\ pc = "done"
    /\ Settled1 /\ OkAgents1 = {}
    /\ stage3_result = NoModelsResult

\* the Stage1 list the configured order prescribes for the outcomes q1
ConfiguredOrderStage1 ==
    LET ok == SelectSeq([ i \in Agents |-> i ], LAMBDA i : q1[i] = "ok")
    IN [ k \in 1..Len(ok) |-> [model |-> clean_model_name(config[ok[k]]),
                               response |-> Answer(ok[k])] ]

\* C3: the Stage1 list and the label of each response follow the configured
\* agent order, whatever the order in which the queries settled
Inv_C3_ConfiguredOrder ==
    /\ (InTurn /\ pc # "stage1") => stage1_results = ConfiguredOrderStage1
    /\ (InTurn /\ pc \in {"stage2", "stage2_done", "updated", "stage3"}) =>
          label_to_model = [ k \in 1..Len(ConfiguredOrderStage1) |->
                               <<ResponseLabel(Chr65(k - 1)), ConfiguredOrderStage1[k].model>> ]

Witness_C3 ==
    /\ pc = "stage1_done"
    /\ Len(stage1_results) >= 2
    /\ \E a, b \in 1..Len(order1) :
          a < b /\ order1[a] > order1[b] /\ q1[order1[a]] = "ok" /\ q1[order1[b]] = "ok"

\* C4: the queries of a stage are issued together, a failed query neither
\* cancels another query nor discards its answer, and nothing of the next
\* step (Stage2 queries; leaderboard, Update, chairman query) happens before
\* all queries of the stage have settled
Inv_C4_ScatterGather ==
    /\ pc = "stage1" => \A i \in Agents : q1[i] # "idle"
    /\ (InTurn /\ pc # "stage1") =>
          /\ Settled1
          /\ Len(stage1_results) = Cardinality(OkAgents1)
          /\ \A i \in OkAgents1 : \E k \in 1..Len(stage1_results) :
                stage1_results[k].response = Answer(i)
    /\ (\E i \in Agents : q2[i].st # "idle") => (Settled1 /\ \A i \in Agents : q2[i].st # "idle")
    /\ (InTurn /\ ( pc \in {"stage2_done", "updated", "stage3"}
                    \/ nUpdates > 0 \/ qc # "idle" \/ aggregate_rankings # <<>>
                    \/ chairman_prompt # NoPrompt )) =>
          /\ Settled2
          /\ Len(stage2_results) = Cardinality(OkAgents2)
          /\ \A i \in OkAgents2 : \E k \in 1..Len(stage2_results) :
                stage2_results[k].ranking = q2[i].reply

Witness_C4 ==
    /\ pc = "stage3"
    /\ \E i, j \in Agents : q1[i] = "fail" /\ q1[j] = "ok"
    /\ \E i, j \in Agents : q2[i].st = "fail" /\ q2[j].st = "ok"
    /\ Len(stage1_results) = Cardinality(OkAgents1)

\* within run_full_council the Update comes after the Stage2 replies have
\* settled and before the chairman query is issued, once
Inv_UpdateBetweenStage2AndStage3 ==
    /\ (InTurn /\ pc = "stage2") => nUpdates = 0
    /\ (InTurn /\ pc = "stage2_done") => nUpdates = 0
    /\ (InTurn /\ qc # "idle") => nUpdates = 1
    /\ (InTurn /\ pc = "done" /\ ranking_prompt.kind = "ranking") => nUpdates = 1
    /\ (InTurn /\ ranking_prompt.kind # "ranking") => nUpdates = 0

\* C6: a read error or a write error of the score file during Update stays
\* inside Update: the turn goes on to Stage3 and returns its normal results
Inv_C6_StoreErrorContained ==
    (entry = "full" /\ nUpdates > 0 /\ (updErr.rd \/ updErr.wr # "ok")) =>
        /\ ~raised
        /\ nUpdates = 1
        /\ pc \in {"updated", "stage3", "done"}
        /\ stage1_results = ConfiguredOrderStage1
        /\ Len(stage2_results) = Cardinality(OkAgents2)
        /\ pc \in {"stage3", "done"} => (chairman_prompt.kind = "chairman" /\ qc # "idle")
        /\ pc = "done" =>
              stage3_result.response =
                 IF qc = "ok" THEN Synthesis ELSE <<"Error: Unable to generate final synthesis.">>

Witness_C6 ==
    /\ entry = "full" /\ pc = "done"
    /\ updErr.rd /\ updErr.wr = "open_fails"
    /\ scores_file.state = "ok"
    /\ stage3_result.response = Synthesis

\* C7: in the Stage3 prompt every reviewer's ranking is introduced by a
\* label, never by an agent name, also for a reviewer without Stage1 response
Claim_C7_ReviewerShownByLabel ==
    chairman_prompt.kind = "chairman" =>
        \A k \in 1..Len(chairman_prompt.rankings) :
            LET by == chairman_prompt.rankings[k].by
            IN /\ Len(by) = 1 /\ IsLabel(by[1])
               /\ by \notin { clean_model_name(config[i]) : i \in Agents }

NamePool == { NameClaude, NameGemini, <<"Chat", "GPT">>, <<"Model", " ", "A">> }

\* the Stage1 list with its agent names replaced by f
Renamed(stage1_results_, f) ==
    [ i \in 1..Len(stage1_results_) |->
        [model |-> f[i], response |-> stage1_results_[i].response] ]

\* C8: the Stage2 ranking prompt of the turn is the prompt built for the same
\* response texts under any other agent names
Inv_C8_RankingPromptIgnoresNames ==
    ranking_prompt.kind = "ranking" =>
        \A f \in [1..Len(stage1_results) -> NamePool] :
            build_ranking_prompt(UserQuery, Renamed(stage1_results, f),
                                 Stage2Labels(Renamed(stage1_results, f)), <<>>) = ranking_prompt

Witness_C8 ==
    /\ pc = "stage2"
    /\ ranking_prompt.kind = "ranking"
    /\ Len(ranking_prompt.responses) >= 2
    /\ \E i, j \in 1..Len(stage1_results) : stage1_results[i].model # stage1_results[j].model

\* C9: the labels of a turn are pairwise distinct and the label-to-agent map
\* has exactly one entry per response, the k-th label standing for the k-th
\* response, for every number of responses and pattern of repeated agents
Inv_C9_LabelsBijective ==
    web.op = "stage2_prompt" =>
        LET m == web.label_to_model
            s1 == web.stage1_results
        IN /\ Len(m) = Len(s1)
           /\ Len(web.prompt.responses) = Len(s1)
           /\ \A i, j \in 1..Len(m) : i # j => m[i][1] # m[j][1]
           /\ \A k \in 1..Len(m) :
                 /\ m[k][2] = s1[k].model
                 /\ web.prompt.responses[k].label = m[k][1]
                 /\ web.prompt.responses[k].response = s1[k].response

Witness_C9 ==
    /\ web.op = "stage2_prompt"
    /\ Len(web.stage1_results) = 3
    /\ web.stage1_results[1].model = web.stage1_results[3].model
    /\ web.stage1_results[1].model # web.stage1_results[2].model
    /\ Len(web.label_to_model) = 3

\* the label <letter><k>: the letter of the agent's first occurrence and the
\* 1-indexed occurrence number of the response among the agent's responses
RoundLabel(s1, n) ==
    LET firsts == { i \in 1..n : \A j \in 1..(i - 1) : s1[j].model # s1[i].model }
        first == CHOOSE i \in firsts : s1[i].model = s1[n].model
        letter == Letters[Cardinality({ i \in firsts : i <= first })]
        k == Cardinality({ j \in 1..n : s1[j].model = s1[n].model })
    IN ResponseLabel(letter \o ToString(k))

\* C10: when an agent has several responses, the labels that feed Stage2 are
\* <letter><k>: one letter per agent, fixed at its first occurrence, and the
\* occurrence number k
Claim_C10_LetterPerAgent ==
    ( /\ web.op = "stage2_prompt"
      /\ \E i, j \in 1..Len(web.stage1_results) :
            i # j /\ web.stage1_results[i].model = web.stage1_results[j].model ) =>
        \A n \in 1..Len(web.stage1_results) :
            /\ web.label_to_model[n][1] = RoundLabel(web.stage1_results, n)
            /\ web.prompt.responses[n].label = RoundLabel(web.stage1_results, n)

----------------------------------------------------------------------------
(* Partial failure *)

\* canonical names of the configured agents
ConfiguredNames == { clean_model_name(config[i]) : i \in Agents }

\* canonical names none of whose Stage1 queries succeeded
FailedNames == ConfiguredNames \ { clean_model_name(config[i]) : i \in OkAgents1 }

\* the table this turn's Update loaded: empty when the file is missing or unreadable
LoadedBefore ==
    IF scores_before.state = "ok" /\ ~updErr.rd THEN scores_before.table ELSE <<>>

\* dict lookup with a default
DictGetOr(d, k, default) == IF DictHas(d, k) THEN DictGet(d, k) ELSE default

Absent == <<-1, 1>>

\* Update has run in this turn and its write went through
UpdateWritten == entry = "full" /\ nUpdates = 1 /\ updErr.wr = "ok" /\ ~raised

\* C11 (as stated): an agent whose Stage1 query failed has no label, no
\* leaderboard row, and its persisted score after this turn's Update is the
\* one persisted before, whatever the reviewers replied
Claim_C11_FailedAgentScoreUnchanged ==
    (UpdateWritten /\ updErr = NoErr /\ scores_before.state = "ok") =>
        \A n \in FailedNames :
            /\ \A k \in 1..Len(label_to_model) : label_to_model[k][2] # n
            /\ \A k \in 1..Len(aggregate_rankings) : aggregate_rankings[k].model # n
            /\ DictGetOr(scores_file.table, n, Absent) = DictGetOr(scores_before.table, n, Absent)

\* C11 (amended): an agent whose Stage1 query failed has no label and no
\* leaderboard row, and Update gives it no points: the score written back for
\* it is the score Update loaded, a loaded score above 25 being written back
\* as 0 by the legacy guard, whatever the reviewers replied
Inv_C11_FailedAgentNotCandidate ==
    (InTurn /\ Settled1 /\ pc # "stage1") =>
        \A n \in FailedNames :
            /\ \A k \in 1..Len(label_to_model) : label_to_model[k][2] # n
            /\ \A k \in 1..Len(aggregate_rankings) : aggregate_rankings[k].model # n
            /\ UpdateWritten =>
                  LET old == DictGetOr(LoadedBefore, n, Absent)
                      kept == IF RatLess(<<25, 1>>, old) THEN <<0, 1>> ELSE old
                  IN DictGetOr(scores_file.table, n, Absent) = kept

Witness_C11 ==
    /\ pc = "updated" /\ UpdateWritten /\ updErr = NoErr
    /\ \E n \in FailedNames : DictGetOr(scores_before.table, n, Absent) = <<10, 1>>
    /\ Len(label_to_model) = 2
    /\ \E k \in 1..Len(stage2_results) : "Response C" \in Range(stage2_results[k].parsed_ranking)

----------------------------------------------------------------------------
(* What a list of reviews means for one agent, stated over sets *)

RECURSIVE SumSet(_)
SumSet(S) == IF S = {} THEN 0 ELSE LET x == CHOOSE y \in S : TRUE IN x + SumSet(S \ {x})

RECURSIVE SumFn(_, _)
SumFn(f, S) == IF S = {} THEN 0 ELSE LET x == CHOOSE y \in S : TRUE IN f[x] + SumFn(f, S \ {x})

\* the positions (1-indexed) at which a list names a label of agent n
MentionsOf(list, map, n) ==
    { p \in 1..Len(list) : DictHas(map, list[p]) /\ DictGet(map, list[p]) = n }

\* the agents a list names
MentionedIn(list, map) ==
    { DictGet(map, list[p]) : p \in { q \in 1..Len(list) : DictHas(map, list[q]) } } \ {<<>>}

Min(S) == CHOOSE x \in S : \A y \in S : x <= y

\* the average of the positions of agent n in one list
GroupRank(list, map, n) ==
    Rat(SumSet(MentionsOf(list, map, n)), Cardinality(MentionsOf(list, map, n)))

\* the number of agents a list places before agent n: smaller group-rank, or
\* the same group-rank and named earlier
PlaceOf(list, map, n) ==
    Cardinality({ m \in MentionedIn(list, map) \ {n} :
                    \/ RatLess(GroupRank(list, map, m), GroupRank(list, map, n))
                    \/ /\ GroupRank(list, map, m) = GroupRank(list, map, n)
                       /\ Min(MentionsOf(list, map, m)) < Min(MentionsOf(list, map, n)) })

\* the points one list is worth to agent n, 0 when it does not name n
PointsOf(list, map, n) ==
    IF n \in MentionedIn(list, map) THEN RANKING_POINTS(PlaceOf(list, map, n)) ELSE 0

\* the reviews (indices) that are worth points to agent n
Awarding(reviews, map, n) ==
    { k \in 1..Len(reviews) : PointsOf(reviews[k].parsed_ranking, map, n) > 0 }

\* total points over the number of reviews that awarded any
RoundAvgOf(reviews, map, n) ==
    Rat(SumFn([ k \in 1..Len(reviews) |-> PointsOf(reviews[k].parsed_ranking, map, n) ],
              Awarding(reviews, map, n)),
        Cardinality(Awarding(reviews, map, n)))

\* every position any review gives a label of agent n, as <<review, position>>
PositionsOf(reviews, map, n) ==
    UNION { { <<k, p>> : p \in MentionsOf(reviews[k].parsed_ranking, map, n) } :
            k \in 1..Len(reviews) }

MeanPosition(reviews, map, n) ==
    LET P == PositionsOf(reviews, map, n)
    IN Rat(SumFn([ kp \in P |-> kp[2] ], P), Cardinality(P))

\* the EMA rule: fast start without a prior score or with prior 0
ExpectedScore(old, round_avg) ==
    IF old = Absent \/ old = <<0, 1>> THEN round_avg
    ELSE Blend(old, round_avg)

\* the legacy guard applied to a loaded score
Guarded(old) == IF old # Absent /\ RatLess(<<25, 1>>, old) THEN <<0, 1>> ELSE old

----------------------------------------------------------------------------
(* Stage2 failure *)

ReviewerDropped(i) == q1[i] = "ok" /\ q2[i].st = "fail"

\* C12: an agent whose Stage2 query failed after it answered Stage1 is
\* dropped only as a reviewer: nothing is raised, its response keeps its
\* label, and the positions the other reviewers give that label make its
\* leaderboard row and its score
Inv_C12_Stage2FailureOnlyDropsReviewer ==
    (InTurn /\ Settled2 /\ pc # "stage2") =>
        /\ ~raised
        /\ Len(stage2_results) = Cardinality(OkAgents2)
        /\ \A i \in Agents : ReviewerDropped(i) =>
              LET n == clean_model_name(config[i])
                  k == Cardinality({ j \in OkAgents1 : j <= i })
                  P == PositionsOf(stage2_results, label_to_model, n)
              IN /\ stage1_results[k] = [model |-> n, response |-> Answer(i)]
                 /\ label_to_model[k] = <<ResponseLabel(Chr65(k - 1)), n>>
                 /\ P # {} =>
                       \E r \in 1..Len(aggregate_rankings) :
                          /\ aggregate_rankings[r].model = n
                          /\ aggregate_rankings[r].rankings_count = Cardinality(P)
                          /\ aggregate_rankings[r].average_rank =
                                Round2(MeanPosition(stage2_results, label_to_model, n))
                 /\ (UpdateWritten /\ Awarding(stage2_results, label_to_model, n) # {}) =>
                       DictGetOr(scores_file.table, n, Absent) =
                          ExpectedScore(Guarded(DictGetOr(LoadedBefore, n, Absent)),
                                        RoundAvgOf(stage2_results, label_to_model, n))
        /\ (entry = "full" /\ pc = "done") => stage3_result.response # <<>>

Witness_C12 ==
    /\ entry = "full" /\ pc = "done" /\ UpdateWritten
    /\ stage3_result.response = Synthesis
    /\ \E i \in Agents :
          /\ ReviewerDropped(i)
          /\ Cardinality(PositionsOf(stage2_results, label_to_model, clean_model_name(config[i]))) = 2
          /\ DictGetOr(scores_file.table, clean_model_name(config[i]), Absent)
                # DictGetOr(LoadedBefore, clean_model_name(config[i]), Absent)

----------------------------------------------------------------------------
(* Empty replies *)

\* the agents whose query brought text
Answered(outcomes, contents) ==
    SelectSeq([ i \in 1..Len(config) |-> i ],
              LAMBDA i : outcomes[i] = "ok" /\ contents[i] # <<>>)

\* C13: an empty provider reply counts like an error or a timeout: in Stage1
\* the agent gets no response entry and no label, in Stage2 no ranking
Inv_C13_EmptyReplyIsNoAnswer ==
    /\ web.op = "stage1" =>
          LET ans == Answered(web.outcomes, web.contents)
          IN /\ web.stage1_results =
                   [ k \in 1..Len(ans) |-> [model |-> clean_model_name(config[ans[k]]),
                                            response |-> web.contents[ans[k]]] ]
             /\ Len(web.label_to_model) = Len(ans)
    /\ web.op = "stage2" =>
          LET ans == Answered(web.outcomes, web.contents)
          IN /\ Len(web.stage2_results) = Len(ans)
             /\ \A k \in 1..Len(ans) :
                   /\ web.stage2_results[k].model = clean_model_name(config[ans[k]])
                   /\ web.stage2_results[k].ranking = web.contents[ans[k]]

Witness_C13 ==
    /\ web.op = "stage1"
    /\ web.outcomes = [ i \in 1..3 |-> "ok" ]
    /\ web.contents = [ i \in 1..3 |-> IF i = 2 THEN <<>> ELSE <<"text">> ]
    /\ Len(web.stage1_results) = 2
    /\ DictKeys(web.label_to_model) = {"Response A", "Response B"}

----------------------------------------------------------------------------
(* Parser *)

\* the labels of the numbered entries of s, in document order
EntriesOf(s) ==
    LET I == { i \in 1..(Len(s) - 1) : IsNumber(s[i]) /\ IsLabel(s[i + 1]) }
    IN [ k \in 1..Cardinality(I) |->
           s[(CHOOSE i \in I : Cardinality({ j \in I : j < i }) = k - 1) + 1] ]

\* the text after the first marker
AfterMarker(s) == SubSeq(s, FindMarker(s, 1) + 1, Len(s))

\* C14: when the reply holds the marker and at least one numbered entry after
\* it, Parse returns exactly the labels of the numbered entries after the
\* marker, in document order
Claim_C14_NumberedEntriesAfterMarker ==
    (web.op = "parse" /\ FindMarker(web.text, 1) > 0
       /\ EntriesOf(AfterMarker(web.text)) # <<>>) =>
        web.parsed = EntriesOf(AfterMarker(web.text))

----------------------------------------------------------------------------
(* Point award *)

MapAgents(map) == { map[i][2] : i \in 1..Len(map) }

\* C16: one reviewer's list gives each agent the group-rank that is the
\* average of the positions of its labels; agents are placed by group-rank
\* ascending and get 25, 12, 6, 3, 2, 1, 0, ... by place; an agent the list
\* does not name gets no entry; [A1, A2, A3, B1] gives agent A 25, agent B 12
Inv_C16_PointsByGroupRank ==
    web.op = "points" =>
        /\ \A n \in MapAgents(web.map) \cup {Outsider} :
              DictGetOr(web.points, n, 0) = PointsOf(web.list, web.map, n)
        /\ \A i \in 1..Len(web.points) :
              /\ web.points[i][1] \in MentionedIn(web.list, web.map)
              /\ \A j \in 1..Len(web.points) : i # j => web.points[i][1] # web.points[j][1]
        /\ (web.map = MapRounds
              /\ web.list = <<"Response A1", "Response A2", "Response A3", "Response B1">>) =>
              web.points = << <<AgentX, 25>>, <<AgentY, 12>> >>

Witness_C16 ==
    /\ web.op = "points"
    /\ web.map = MapRounds
    /\ web.list = <<"Response A1", "Response B1", "Response A2", "Response A3">>
    /\ web.points = << <<AgentY, 25>>, <<AgentX, 12>> >>

\* C17: self-votes count: the points of a review are the same whoever the
\* reviewer is, and the reviewer's own response is placed like any other
Inv_C17_SelfVotesCount ==
    web.op = "points" =>
        /\ \A r \in MapAgents(web.map) \cup {Outsider} :
              calculate_points_for_review(web.list, r, web.map) = web.points
        /\ DictGetOr(web.points, web.reviewer, 0) = PointsOf(web.list, web.map, web.reviewer)

Witness_C17 ==
    /\ web.op = "points"
    /\ web.map = MapSingle
    /\ web.reviewer = AgentX
    /\ web.list = <<"Response A", "Response B", "Response C">>
    /\ DictGetOr(web.points, AgentX, 0) = 25

----------------------------------------------------------------------------
(* Leaderboard *)

\* the agents with at least one recorded position
Ranked(reviews, map) == { n \in MapAgents(map) : PositionsOf(reviews, map, n) # {} }

\* C18: the leaderboard has one row per agent with a recorded position and
\* none for the others; the row holds the mean of all positions of the
\* agent's labels over all reviews, rounded to 2 decimals, and their number
Inv_C18_AggregateRows ==
    web.op = "aggregate" =>
        LET rows == web.aggregate_rankings
        IN /\ Len(rows) = Cardinality(Ranked(web.reviews, web.map))
           /\ \A n \in Ranked(web.reviews, web.map) :
                 \E r \in 1..Len(rows) :
                    /\ rows[r].model = n
                    /\ rows[r].average_rank = Round2(MeanPosition(web.reviews, web.map, n))
                    /\ rows[r].rankings_count = Cardinality(PositionsOf(web.reviews, web.map, n))

Witness_C18 ==
    /\ web.op = "aggregate"
    /\ web.map = MapRounds
    /\ Len(web.reviews) = 3
    /\ Len(web.aggregate_rankings) = 2
    /\ \E r \in 1..2 : /\ web.aggregate_rankings[r].model = AgentX
                       /\ web.aggregate_rankings[r].rankings_count = 8
                       /\ web.aggregate_rankings[r].average_rank = <<119, 50>>

\* the first recorded position of agent n: the earliest review naming it and
\* the earliest position in that review
FirstSeen(reviews, map, n) ==
    Min({ 100 * kp[1] + kp[2] : kp \in PositionsOf(reviews, map, n) })

\* C19: the leaderboard is sorted by average rank ascending and rows with
\* equal average rank keep first-seen order; two reviews [A, B, C] and a third
\* [B, A, C] put agent A first
Inv_C19_LeaderboardOrder ==
    web.op = "aggregate" =>
        LET rows == web.aggregate_rankings
        IN /\ \A r, t \in 1..Len(rows) : r < t =>
                 \/ RatLess(rows[r].average_rank, rows[t].average_rank)
                 \/ /\ rows[r].average_rank = rows[t].average_rank
                    /\ FirstSeen(web.reviews, web.map, rows[r].model)
                          < FirstSeen(web.reviews, web.map, rows[t].model)
           /\ (web.map = MapSingle
                 /\ [ k \in 1..Len(web.reviews) |-> web.reviews[k].parsed_ranking ]
                      = << <<"Response A", "Response B", "Response C">>,
                           <<"Response A", "Response B", "Response C">>,
                           <<"Response B", "Response A", "Response C">> >>) =>
                 /\ rows[1].model = AgentX
                 /\ rows[1].average_rank = <<133, 100>>

Witness_C19 ==
    /\ web.op = "aggregate"
    /\ web.map = MapSingle
    /\ [ k \in 1..Len(web.reviews) |-> web.reviews[k].parsed_ranking ]
         = << <<"Response A", "Response B", "Response C">>,
              <<"Response A", "Response B", "Response C">>,
              <<"Response B", "Response A", "Response C">> >>
    /\ web.aggregate_rankings[1].model = AgentX
    /\ web.aggregate_rankings[2].model = AgentY

----------------------------------------------------------------------------
(* Empty parse; the EMA rule *)

\* the reviews whose parse named at least one label
NonEmptyReviews == SelectSeq(stage2_results, LAMBDA r : r.parsed_ranking # <<>>)

\* C15: a reviewer whose reply parses to nothing raises no error and counts
\* for nothing: leaderboard and persisted scores are those of the turn in
\* which that reviewer sent no reply at all
Inv_C15_EmptyParseCountsForNothing ==
    /\ (InTurn /\ Settled2 /\ pc # "stage2") => ~raised
    /\ pc = "stage2_done" =>
          aggregate_rankings = calculate_aggregate_rankings(NonEmptyReviews, label_to_model)
    /\ (pc = "updated" /\ UpdateWritten) =>
          scores_file.table = UpdatedTable(NonEmptyReviews, label_to_model, LoadedBefore)

Witness_C15 ==
    /\ entry = "full" /\ pc = "updated" /\ UpdateWritten
    /\ Len(stage2_results) = 3
    /\ Len(NonEmptyReviews) = 2
    /\ scores_file.table # LoadedBefore
    /\ Len(aggregate_rankings) = 3

\* C20: an agent with a round average this turn gets its score by the EMA
\* rule: the round average itself when Update finds no score for it or the
\* score 0 (after its legacy guard), else prior * 0.8 + roundAvg * 0.2
\* rounded to 2 decimals; no prior and 25.0 give 25.0, prior 10.0 and 25.0
\* give 13.0
Inv_C20_EmaRule ==
    UpdateWritten =>
        \A n \in ConfiguredNames :
            Awarding(stage2_results, label_to_model, n) # {} =>
                LET prior == Guarded(DictGetOr(LoadedBefore, n, Absent))
                    roundAvg == RoundAvgOf(stage2_results, label_to_model, n)
                    new == DictGetOr(scores_file.table, n, Absent)
                IN /\ (prior = Absent \/ prior = <<0, 1>>) => new = roundAvg
                   /\ (prior # Absent /\ prior # <<0, 1>>) =>
                         new = Blend(prior, roundAvg)
                   /\ (prior = Absent /\ roundAvg = <<25, 1>>) => new = <<25, 1>>
                   /\ (prior = <<10, 1>> /\ roundAvg = <<25, 1>>) => new = <<13, 1>>

Witness_C20 ==
    /\ pc = "updated" /\ UpdateWritten /\ updErr = NoErr
    /\ DictGetOr(LoadedBefore, NameClaude, Absent) = <<10, 1>>
    /\ DictGetOr(scores_file.table, NameClaude, Absent) = <<13, 1>>
    /\ DictGetOr(LoadedBefore, <<"Chat", "GPT">>, Absent) = Absent
    /\ DictGetOr(scores_file.table, <<"Chat", "GPT">>, Absent) = <<12, 1>>

----------------------------------------------------------------------------
(* The score store on its own (SpecStore) *)

\* an Update of the store has run and its write went through
StoreWritten == pc = "store" /\ turn > 0 /\ ~raised /\ scores_file.state = "ok"

\* the raw names of this Update's map that canonicalize to k and were awarded points
AwardedAs(k) ==
    { m \in MapAgents(label_to_model) :
        clean_model_name(m) = k /\ Awarding(stage2_results, label_to_model, m) # {} }

\* C21: Update rewrites every stored score above 25 to 0 and keeps a stored
\* score of exactly 25; an agent whose score was reset and that is awarded
\* points in the same Update starts afresh from its round average (stored 500
\* and a round worth 6 points give 6), a stored 25 is blended like any other
Inv_C21_LegacyGuard ==
    StoreWritten =>
        \A k \in DictKeys(LoadedBefore) :
            LET old == DictGet(LoadedBefore, k)
                new == DictGetOr(scores_file.table, k, Absent)
            IN /\ (RatLess(<<25, 1>>, old) /\ AwardedAs(k) = {}) => new = <<0, 1>>
               /\ (old = <<25, 1>> /\ AwardedAs(k) = {}) => new = <<25, 1>>
               /\ \A m \in AwardedAs(k) :
                     AwardedAs(k) = {m} =>
                        LET roundAvg == RoundAvgOf(stage2_results, label_to_model, m)
                        IN /\ RatLess(<<25, 1>>, old) => new = roundAvg
                           /\ (old = <<500, 1>> /\ roundAvg = <<6, 1>>) => new = <<6, 1>>
                           /\ old = <<25, 1>> =>
                                 new = Blend(<<25, 1>>, roundAvg)

Witness_C21 ==
    /\ StoreWritten /\ ~updErr.rd /\ scores_before.state = "ok"
    /\ DictGetOr(LoadedBefore, AgentX, Absent) = <<500, 1>>
    /\ AwardedAs(AgentX) = {AgentX}
    /\ RoundAvgOf(stage2_results, label_to_model, AgentX) = <<6, 1>>
    /\ DictGetOr(scores_file.table, AgentX, Absent) = <<6, 1>>
    /\ DictGetOr(LoadedBefore, AgentY, Absent) = <<25, 1>>
    /\ DictGetOr(scores_file.table, AgentY, Absent) = <<25, 1>>

\* C22: an agent's round average is the sum of the points it was awarded
\* divided by the number of reviews that awarded it points; a review that does
\* not name it, or names it at a place worth nothing, is not in the divisor,
\* and an agent no review awarded points gets no round average: no score is
\* written for it
Inv_C22_RoundAverage ==
    (pc = "store" /\ turn > 0) =>
        \A m \in MapAgents(label_to_model) :
            LET A == Awarding(stage2_results, label_to_model, m)
                total == SumFn([ k \in 1..Len(stage2_results) |->
                                   PointsOf(stage2_results[k].parsed_ranking, label_to_model, m) ], A)
                st == DictGet(RoundStats(stage2_results, label_to_model, Len(stage2_results)), m)
                k == clean_model_name(m)
                prior == Guarded(DictGetOr(LoadedBefore, k, Absent))
                new == DictGetOr(scores_file.table, k, Absent)
            IN /\ st = <<total, Cardinality(A)>>
               /\ (StoreWritten /\ AwardedAs(k) = {m} /\ prior \in {Absent, <<0, 1>>}) =>
                     new = Rat(total, Cardinality(A))
               /\ (StoreWritten /\ AwardedAs(k) = {}) => new = prior

Witness_C22 ==
    /\ StoreWritten /\ LoadedBefore = <<>> /\ label_to_model = MapSingle
    /\ Len(stage2_results) = 2
    /\ Cardinality(Awarding(stage2_results, label_to_model, AgentX)) = 2
    /\ Cardinality(Awarding(stage2_results, label_to_model, AgentY)) = 1
    /\ DictGetOr(scores_file.table, AgentX, Absent) = <<31, 2>>
    /\ DictGetOr(scores_file.table, AgentY, Absent) = <<25, 1>>

\* some review of this Update names a label of an agent whose canonical name is k
Mentioned(k) ==
    \E m \in MapAgents(label_to_model) :
        /\ clean_model_name(m) = k
        /\ \E r \in 1..Len(stage2_results) :
              MentionsOf(stage2_results[r].parsed_ranking, label_to_model, m) # {}

\* the canonical names this Update can touch: those stored before and those of the map
StoreNames ==
    (IF scores_before.state = "ok" THEN DictKeys(scores_before.table) ELSE {})
    \cup { clean_model_name(m) : m \in MapAgents(label_to_model) }

\* C23 (as stated): Update leaves the persisted score of every agent that
\* received no mention this turn exactly as it was before the turn
Claim_C23_UnmentionedScoreUnchanged ==
    StoreWritten =>
        \A k \in StoreNames :
            ~Mentioned(k) =>
                DictGetOr(scores_file.table, k, Absent)
                    = DictGetOr(IF scores_before.state = "ok" THEN scores_before.table ELSE <<>>,
                                k, Absent)

\* C23 (amended): for every agent that received no mention this turn Update
\* writes back the score it loaded, a loaded score above 25 being written
\* back as 0 by the legacy guard; a score of 25 or less never changes from
\* inactivity, and no score is created for an agent without one
Inv_C23_UnmentionedKeepsLoadedScore ==
    StoreWritten =>
        \A k \in StoreNames :
            ~Mentioned(k) =>
                LET old == DictGetOr(LoadedBefore, k, Absent)
                    new == DictGetOr(scores_file.table, k, Absent)
                IN /\ new = Guarded(old)
                   /\ (old # Absent /\ ~RatLess(<<25, 1>>, old)) => new = old
                   /\ old = Absent => new = Absent

Witness_C23 ==
    /\ StoreWritten /\ ~updErr.rd /\ scores_before.state = "ok"
    /\ \E k \in StoreNames : Mentioned(k)
    /\ ~Mentioned(AgentX) /\ ~Mentioned(AgentZ)
    /\ DictGetOr(LoadedBefore, AgentX, Absent) = <<500, 1>>
    /\ DictGetOr(scores_file.table, AgentX, Absent) = <<0, 1>>
    /\ DictGetOr(LoadedBefore, AgentZ, Absent) = <<10, 1>>
    /\ DictGetOr(scores_file.table, AgentZ, Absent) = <<10, 1>>

\* the canonical names under which this Update writes a score, one entry per
\* write, in the order of the writes (update_scores lines 109-129: one write
\* for every round_stats entry with reviews > 0)
ScoreWrites ==
    LET round_stats == RoundStats(stage2_results, label_to_model, Len(stage2_results))
        written == SelectSeq(round_stats, LAMBDA e : e[2][2] > 0)
    IN [ i \in 1..Len(written) |-> clean_model_name(written[i][1]) ]

\* C24: within one Update each canonical name has its score written at most
\* once, and the score written is one fast-start or EMA step from the loaded
\* score, also when the map holds several labels of one agent or several raw
\* names with the same canonical name
Claim_C24_OneStepPerName ==
    (pc = "store" /\ turn > 0) =>
        \A k \in StoreNames :
            /\ Cardinality({ i \in 1..Len(ScoreWrites) : ScoreWrites[i] = k }) <= 1
            /\ (StoreWritten /\ AwardedAs(k) # {}) =>
                  \E m \in AwardedAs(k) :
                      DictGetOr(scores_file.table, k, Absent)
                          = ExpectedScore(Guarded(DictGetOr(LoadedBefore, k, Absent)),
                                          RoundAvgOf(stage2_results, label_to_model, m))

\* the same for the maps the claim holds on: no two raw names of the map share
\* a canonical name (several labels of one agent are allowed)
Inv_C24_OneStepPerDistinctName ==
    (pc = "store" /\ turn > 0
       /\ \A m1, m2 \in MapAgents(label_to_model) :
             clean_model_name(m1) = clean_model_name(m2) => m1 = m2) =>
        \A k \in StoreNames :
            /\ Cardinality({ i \in 1..Len(ScoreWrites) : ScoreWrites[i] = k }) <= 1
            /\ (StoreWritten /\ AwardedAs(k) # {}) =>
                  \E m \in AwardedAs(k) :
                      DictGetOr(scores_file.table, k, Absent)
                          = ExpectedScore(Guarded(DictGetOr(LoadedBefore, k, Absent)),
                                          RoundAvgOf(stage2_results, label_to_model, m))

\* C26: Update reads and writes scores only under canonical names: raw names
\* that differ by a thinking suffix, by the spacing of "Chat GPT" or by letter
\* case share one stored score, a turn under one variant blends with the score
\* earned under another (25, then 12, gives 22.4 under the one key), and
\* Update creates no key that is not a canonical name
Inv_C26_CanonicalKeysOnly ==
    StoreWritten =>
        /\ DictKeys(scores_file.table)
              \subseteq DictKeys(LoadedBefore)
                        \cup { clean_model_name(m) : m \in MapAgents(label_to_model) }
        /\ \A v \in {RawChatThinking, RawChatSpaced} :
              /\ ~DictHas(scores_file.table, v)
              /\ (v \in MapAgents(label_to_model)
                    /\ Awarding(stage2_results, label_to_model, v) # {}) =>
                    DictHas(scores_file.table, CanonChat)
        /\ \A m \in MapAgents(label_to_model) :
              LET k == clean_model_name(m)
                  old == DictGetOr(LoadedBefore, k, Absent)
                  new == DictGetOr(scores_file.table, k, Absent)
                  roundAvg == RoundAvgOf(stage2_results, label_to_model, m)
              IN /\ clean_model_name(k) = k
                 /\ AwardedAs(k) = {m} =>
                       /\ new = ExpectedScore(Guarded(old), roundAvg)
                       /\ (old = <<25, 1>> /\ roundAvg = <<12, 1>>) => new = <<112, 5>>

Witness_C26 ==
    /\ StoreWritten /\ label_to_model = MapVariantS /\ entry = "update_scores"
    /\ DictGetOr(LoadedBefore, CanonChat, Absent) = <<25, 1>>
    /\ RoundAvgOf(stage2_results, label_to_model, RawChatSpaced) = <<12, 1>>
    /\ DictGetOr(scores_file.table, CanonChat, Absent) = <<112, 5>>
    /\ ~DictHas(scores_file.table, RawChatSpaced)
    /\ ~DictHas(scores_file.table, RawChatThinking)

----------------------------------------------------------------------------
(* Canonicalization on its own (SpecFn) *)

\* C25: canonicalization is idempotent: cleaning the canonical name of a raw
\* name built from brand spellings, thinking-suffix spellings, letter case and
\* surrounding whitespace returns it unchanged
Claim_C25_CanonicalizeIdempotent ==
    web.op = "clean" => clean_model_name(web.cleaned) = web.cleaned

\* the same for raw names without whitespace after the last suffix and with at
\* most one suffix
Inv_C25_IdempotentWithoutTrailingSpace ==
    (web.op = "clean" /\ web.name[Len(web.name)] # " "
       /\ \E lead \in { <<>>, <<" ">> }, brand \in BrandSpellings, run \in SuffixRuns(1) :
             web.name = lead \o brand \o run) =>
        clean_model_name(web.cleaned) = web.cleaned

----------------------------------------------------------------------------
(* The parser on its own (SpecFn) *)

\* C30: when the marker occurs, Parse works on all the text after its first
\* occurrence and on nothing before it: the result is the numbered entries of
\* that remainder, or its bare labels when it has no numbered entry, also with
\* the marker occurring again in the remainder; it is empty when the remainder
\* holds no label, whatever precedes the marker
Claim_C30_ParsesAllAfterFirstMarker ==
    (web.op = "parse" /\ FindMarker(web.text, 1) > 0) =>
        LET remainder == AfterMarker(web.text)
        IN /\ web.parsed = IF EntriesOf(remainder) # <<>> THEN EntriesOf(remainder)
                           ELSE SelectSeq(remainder, IsLabel)
           /\ (\A i \in 1..Len(remainder) : ~IsLabel(remainder[i])) => web.parsed = <<>>

\* the same for replies that hold the marker once
Inv_C30_ParsesAfterSingleMarker ==
    (web.op = "parse" /\ FindMarker(web.text, 1) > 0
       /\ FindMarker(web.text, FindMarker(web.text, 1) + 1) = 0) =>
        LET remainder == AfterMarker(web.text)
        IN /\ web.parsed = IF EntriesOf(remainder) # <<>> THEN EntriesOf(remainder)
                           ELSE SelectSeq(remainder, IsLabel)
           /\ (\A i \in 1..Len(remainder) : ~IsLabel(remainder[i])) => web.parsed = <<>>

----------------------------------------------------------------------------
(* The stage-2 prompt endpoint (SpecWeb) *)

\* C27: for a Stage1 list of distinct agents the stage-2 prompt endpoint
\* labels the responses "Response A1", "Response B1", ...: response n is
\* shown in the prompt under <n-th letter>1 and label_to_model maps that label
\* to the agent of response n
Claim_C27_DistinctAgentsLabelledWithRound ==
    ( /\ web.op = "stage2_prompt"
      /\ \A i, j \in 1..Len(web.stage1_results) :
            web.stage1_results[i].model = web.stage1_results[j].model => i = j ) =>
        /\ Len(web.label_to_model) = Len(web.stage1_results)
        /\ Len(web.prompt.responses) = Len(web.stage1_results)
        /\ \A n \in 1..Len(web.stage1_results) :
              /\ web.label_to_model[n] = <<ResponseLabel(Letters[n] \o "1"),
                                           web.stage1_results[n].model>>
              /\ web.prompt.responses[n].label = ResponseLabel(Letters[n] \o "1")

----------------------------------------------------------------------------
(* The conversation endpoints (SpecConv) *)

\* C28: after a rename of a conversation has succeeded, the stored title is
\* the new title - in every later read and listing - until the next rename,
\* also when the title generated for the first message is stored afterwards
Claim_C28_RenamedTitleStays ==
    \A id \in ConvIds :
        (conversations[id].status = "stored" /\ renamed[id] # "") =>
            /\ conversations[id].title = renamed[id]
            /\ (http_response.op = "get" /\ http_response.id = id
                  /\ http_response.status = 200) => http_response.title = renamed[id]
            /\ http_response.op = "list" => <<id, renamed[id]>> \in http_response.listing

\* the same while no title generated for a first message is awaited
Inv_C28_RenamedTitleStaysWithoutTitleTask ==
    \A id \in ConvIds :
        (conversations[id].status = "stored" /\ renamed[id] # ""
           /\ conversations[id].messages = 0) =>
            conversations[id].title = renamed[id]

\* a request whose turn is at Stage2 goes on by one Update of the score store
\* and the await of Stage3, a turn comes to Stage3 from Stage2 only, a turn at
\* Stage3 ends the request, and nothing else writes the store
OneUpdatePerTurn ==
    /\ \A h \in 1..MaxInFlight :
          /\ (handlers[h].pc = "stage2" /\ handlers'[h] # handlers[h]) =>
                /\ handlers'[h].pc = "stage3"
                /\ nUpdates' = nUpdates + 1
                /\ nWrites' = nWrites + 1
          /\ (handlers'[h].pc = "stage3" /\ handlers[h].pc # "stage3") =>
                handlers[h].pc = "stage2"
          /\ (handlers[h].pc = "stage3" /\ handlers'[h] # handlers[h]) =>
                handlers'[h] = NoHandler
    /\ (nUpdates' # nUpdates \/ nWrites' # nWrites \/ scores_file' # scores_file) =>
          \E h \in 1..MaxInFlight : handlers[h].pc = "stage2" /\ handlers'[h].pc = "stage3"

\* the body of a streamed request runs the turn: its first step ends at the
\* await of Stage1
StreamRunsTurn ==
    \A h \in 1..MaxInFlight :
        (handlers[h].pc = "stream_body" /\ handlers'[h] # handlers[h]) =>
            handlers'[h].pc = "council"

\* the turns run by send_message through run_full_council perform exactly one
\* Update, in the step in which Stage2 has returned and before Stage3 is awaited
Prop_OneUpdatePerMessageRequest == [][OneUpdatePerTurn]_vars

\* a streamed request ends in its first step: no stage is reached and the
\* score store is left alone
Prop_StreamEndsBeforeStage1 ==
    [][ \A h \in 1..MaxInFlight :
            (handlers[h].pc = "stream_body" /\ handlers'[h] # handlers[h]) =>
                /\ handlers'[h] = NoHandler
                /\ http_response'.event = "NameError"
                /\ UNCHANGED <<scores_file, nUpdates, nWrites>> ]_vars

\* C5: whichever entry point runs the turn - send_message through
\* run_full_council, or the streaming message endpoint - the turn is run, and
\* once it reaches Stage2 it mutates the score store exactly once: one Update,
\* performed after Stage2 has returned and before Stage3 is awaited
Claim_C5_OneUpdateWhicheverEntryPoint == [][OneUpdatePerTurn /\ StreamRunsTurn]_vars

\* C29: a deleted conversation stays deleted: reading it reports 404, every
\* further delete of its id reports 404, and no request changes its file or
\* - in the case of a further delete - anything else
Prop_C29_DeletedStaysDeleted ==
    [][ \A id \in ConvIds :
            conversations[id].status = "deleted" =>
                /\ conversations'[id] = conversations[id]
                /\ delete_conversation(id) =>
                      (http_response'.status = 404 /\ conversations' = conversations)
                /\ get_conversation(id) => http_response'.status = 404 ]_vars

Witness_C29 ==
    /\ conversations[1].status = "deleted"
    /\ http_response = [op |-> "delete", id |-> 1, status |-> 404, title |-> ""]

----------------------------------------------------------------------------
(* The parser's fallback (SpecFn) *)

\* C31: when no numbered entry is found, Parse returns the bare labels in
\* document order: those of the text after the marker when the marker is
\* present, those of the whole text when it is absent
Claim_C31_BareLabelFallback ==
    web.op = "parse" =>
        LET region == IF FindMarker(web.text, 1) > 0 THEN AfterMarker(web.text) ELSE web.text
        IN EntriesOf(region) = <<>> => web.parsed = SelectSeq(region, IsLabel)

\* the same for replies that hold the marker at most once
Inv_C31_BareLabelFallbackSingleMarker ==
    (web.op = "parse"
       /\ (FindMarker(web.text, 1) > 0 => FindMarker(web.text, FindMarker(web.text, 1) + 1) = 0)) =>
        LET region == IF FindMarker(web.text, 1) > 0 THEN AfterMarker(web.text) ELSE web.text
        IN EntriesOf(region) = <<>> => web.parsed = SelectSeq(region, IsLabel)

----------------------------------------------------------------------------
(* Labels across the stages (Spec) *)

\* C32: for one Stage1 result list, every response is shown in the Stage3
\* prompt under the label that the Stage2 prompt and the label-to-agent map
\* gave it, so a label quoted in a ranking denotes the same response in Stage3
Claim_C32_SameLabelsInStage3 ==
    (InTurn /\ chairman_prompt.kind = "chairman" /\ ranking_prompt.kind = "ranking") =>
        /\ Len(chairman_prompt.responses) = Len(label_to_model)
        /\ \A n \in 1..Len(label_to_model) :
              /\ chairman_prompt.responses[n].label = label_to_model[n][1]
              /\ chairman_prompt.responses[n].label = ranking_prompt.responses[n].label
              /\ chairman_prompt.responses[n].response = ranking_prompt.responses[n].response

\* the responses themselves are shown in the same order in both prompts
Inv_C32_SameResponsesInStage3 ==
    (InTurn /\ chairman_prompt.kind = "chairman" /\ ranking_prompt.kind = "ranking") =>
        /\ Len(chairman_prompt.responses) = Len(label_to_model)
        /\ \A n \in 1..Len(label_to_model) :
              chairman_prompt.responses[n].response = ranking_prompt.responses[n].response

----------------------------------------------------------------------------
(* Overlapping turns (SpecOverlap) *)

\* the handlers whose Update has run: a turn past its Stage2 or a
\* process-rankings request, but not a turn that returned after Stage1
\* because no model answered
Updated ==
    { h \in 1..MaxInFlight : handlers[h].pc \in {"stage3", "done"} /\ handlers[h].seq # 0 }

\* the turns that returned after Stage1 with no answer
Unanswered ==
    { h \in 1..MaxInFlight : handlers[h].pc = "done" /\ handlers[h].seq = 0 }

\* the score file after the first n Updates, applied one after another in the
\* order in which they ran
RECURSIVE AfterUpdates(_)
AfterUpdates(n) ==
    IF n = 0 THEN NoFile
    ELSE LET h == CHOOSE g \in Updated : handlers[g].seq = n
         IN update_scores(AfterUpdates(n - 1), handlers[h].input.reviews,
                          handlers[h].input.map, FALSE, "ok").file

\* C33: when turns overlap in one server process no Update is lost: the score
\* file is the result of applying the Updates of the overlapping turns one
\* after another in the order in which they ran
Inv_C33_UpdatesSerialized ==
    pc = "overlap" =>
        /\ nUpdates = Cardinality(Updated)
        /\ \A h \in 1..MaxInFlight : handlers[h].pc = "stage3" => h \in Updated
        /\ \A h \in Unanswered : handlers[h].input = <<>>
        /\ \A n \in 1..nUpdates : \E h \in Updated : handlers[h].seq = n
        /\ scores_file = AfterUpdates(nUpdates)

Witness_C33 ==
    /\ pc = "overlap" /\ nUpdates = 2
    /\ \E h, g \in Updated :
          /\ handlers[h].seq = 1 /\ handlers[g].seq = 2
          /\ handlers[g].seen = NoFile
          /\ handlers[h].input # handlers[g].input
    /\ DictGetOr(scores_file.table, AgentX, Absent) = <<106, 5>>

----------------------------------------------------------------------------
(* Range of the persisted scores (SpecStore) *)

\* every score of the file lies between 1 and 25
ScoresInRange(file) ==
    \A i \in 1..Len(file.table) :
        /\ ~RatLess(file.table[i][2], <<1, 1>>)
        /\ ~RatLess(<<25, 1>>, file.table[i][2])

\* C34: an Update that finds no score outside 1..25 (the empty table to begin
\* with) leaves every persisted score between 1 and 25; on the way the legacy
\* guard resets nothing and no stored score is the 0 that stands for 'no prior
\* score'.  By induction this holds after any sequence of Updates that starts
\* from the empty table
Prop_C34_ScoresStayInRange ==
    [][ (pc = "store" /\ turn' = turn + 1 /\ ScoresInRange(scores_file)) =>
           /\ ScoresInRange(scores_file')
           /\ ResetLegacy(scores_file.table) = scores_file.table
           /\ \A i \in 1..Len(scores_file'.table) : scores_file'.table[i][2] # <<0, 1>> ]_vars

\* a second Update of seven agents blended a sixth place into the lowest
\* score, 1, that an earlier Update had written
Witness_C34 ==
    /\ StoreWritten /\ turn = 2 /\ ~updErr.rd
    /\ scores_before.state = "ok" /\ scores_before.table # <<>>
    /\ ScoresInRange(scores_before)
    /\ \E i \in 1..Len(scores_before.table) :
          /\ scores_before.table[i][2] = <<1, 1>>
          /\ scores_before.table[i][1] = MapSeven[6][2]
          /\ DictGetOr(scores_file.table, scores_before.table[i][1], Absent) = <<1, 1>>
    /\ label_to_model = MapSeven

----------------------------------------------------------------------------
(* Failed read of the score file (SpecStore) *)

\* C35: when loading the score table fails during an Update, the persisted
\* table is left as it was
Claim_C35_FailedReadKeepsTable ==
    (pc = "store" /\ turn > 0 /\ updErr.rd /\ scores_before.state = "ok") =>
        scores_file = scores_before

----------------------------------------------------------------------------
(* A label moved down in one reviewer's list (SpecFn) *)

\* the round average of a round_stats entry <<points, reviews>> is not above
\* that of another; an entry without reviews has no round average
AvgNotAbove(a, b) ==
    \/ a[2] = 0
    \/ b[2] > 0 /\ ~RatLess(Rat(b[1], b[2]), Rat(a[1], a[2]))

\* C36 (as stated): with all other reviews fixed, moving an agent to a worse
\* position in one reviewer's list, the 7th position or below included, raises
\* neither its round average nor the score Update stores for it
Claim_C36_LowerPlaceNeverRaises ==
    web.op = "move" =>
        /\ AvgNotAbove(web.stats_after, web.stats_before)
        /\ ~RatLess(web.score_before, web.score_after)

\* C36 (amended): the same for a move after which the reviewer still awards the
\* agent points, that is, the agent stays among the first six places
Inv_C36_LowerPaidPlaceNeverRaises ==
    (web.op = "move" /\ web.awarded) =>
        /\ AvgNotAbove(web.stats_after, web.stats_before)
        /\ ~RatLess(web.score_before, web.score_after)

\* the agent went from the first to the sixth place of one reviewer while
\* another reviewer placed it first: 25 before, 13 after
Witness_C36 ==
    /\ web.op = "move" /\ web.awarded
    /\ web.stats_before = <<50, 2>>
    /\ web.stats_after = <<26, 2>>
    /\ web.score_before = <<25, 1>> /\ web.score_after = <<13, 1>>

----------------------------------------------------------------------------
(* A label listed more than once by one reviewer (SpecFn) *)

\* the listings of a label in the parsed lists of the reviews, as <<review, position>>
ListingsOf(reviews, label) ==
    { kp \in (1..Len(reviews)) \X (1..MaxReplyLen) :
        /\ kp[2] <= Len(reviews[kp[1]].parsed_ranking)
        /\ reviews[kp[1]].parsed_ranking[kp[2]] = label }

\* a reviewer names some label more than once
SomeRepeat(reviews) ==
    \E k \in 1..Len(reviews) :
        \E p, q \in 1..Len(reviews[k].parsed_ranking) :
            p # q /\ reviews[k].parsed_ranking[p] = reviews[k].parsed_ranking[q]

\* C37 (as stated): a label that a reviewer lists more than once is counted
\* once for that reviewer, so the rankings count of an agent with a single
\* response never exceeds the number of reviewers
Claim_C37_RepeatedLabelCountedOnce ==
    (web.op = "aggregate" /\ web.map = MapSingle) =>
        \A r \in 1..Len(web.aggregate_rankings) :
            web.aggregate_rankings[r].rankings_count <= Len(web.reviews)

\* C37 (amended): every listing of a label counts: the rankings count of an
\* agent with a single response is the number of listings of its label over
\* all reviewers, and it does not exceed the number of reviewers when no
\* reviewer names a label more than once
Inv_C37_EveryListingCounted ==
    (web.op = "aggregate" /\ web.map = MapSingle) =>
        /\ \A i \in 1..Len(MapSingle) :
              LET listings == Cardinality(ListingsOf(web.reviews, MapSingle[i][1]))
                  rows == SelectSeq(web.aggregate_rankings,
                                    LAMBDA row : row.model = MapSingle[i][2])
              IN IF listings = 0 THEN rows = <<>>
                 ELSE Len(rows) = 1 /\ rows[1].rankings_count = listings
        /\ ~SomeRepeat(web.reviews) =>
              \A r \in 1..Len(web.aggregate_rankings) :
                  web.aggregate_rankings[r].rankings_count <= Len(web.reviews)

\* one reviewer lists Response A twice and another once: three positions from
\* two reviewers
Witness_C37 ==
    /\ web.op = "aggregate" /\ web.map = MapSingle
    /\ Len(web.reviews) = 2
    /\ SomeRepeat(web.reviews)
    /\ \E r \in 1..Len(web.aggregate_rankings) :
          /\ web.aggregate_rankings[r].model = AgentX
          /\ web.aggregate_rankings[r].rankings_count = 3

----------------------------------------------------------------------------
(* One automation subprocess per provider (SpecLock) *)

\* the requests whose subprocess for the provider has been started and has not ended
LiveProcesses(provider) ==
    { h \in 1..MaxInFlight :
        /\ handlers[h].pc # "idle"
        /\ handlers[h].provider = provider
        /\ handlers[h].process \in {"running", "killed"} }

\* the requests inside the 'async with' block of the provider's lock
Holders(provider) ==
    { h \in 1..MaxInFlight :
        handlers[h].pc \in {"locked", "communicate"} /\ handlers[h].provider = provider }

\* the lock of a provider is held by one request at a time, and a subprocess
\* that was never killed runs only while its request holds the lock
LockExclusive ==
    pc = "lock" =>
        \A p \in Providers :
            /\ Cardinality(Holders(p)) <= 1
            /\ \A h \in LiveProcesses(p) : handlers[h].process = "running" => h \in Holders(p)

\* C38: at most one browser-automation subprocess per provider is running at
\* any time: prompt runs, model listing and interactive login for the same
\* provider never overlap, for every interleaving of concurrent requests
Claim_C38_OneSubprocessPerProvider ==
    pc = "lock" => \A p \in Providers : Cardinality(LiveProcesses(p)) <= 1

====
